---------------------------- MODULE Spec2Model ----------------------------
(* The in-memory repository of SuiviScolaire (MemStorage, server/storage.ts) *)
(* as a state machine: eleven Map<number, T> collections, the nextIds       *)
(* counters, and one action per storage method.                             *)
(*                                                                          *)
(* A JavaScript Map is modelled as the sequence of its entries in insertion *)
(* order (the order Map.prototype.values() iterates in); a JavaScript       *)
(* object is a function from its own keys to their values, so an optional   *)
(* field that was never given is a key that is not in the DOMAIN.           *)
EXTENDS Integers, Sequences, FiniteSets, TLC

VARIABLES
  users, departments, courses, modules, moduleElements,
  teacherModuleElements, students, studentGroups,
  studentGroupAssignments, sessions, absences,
  nextIds,
  last,      \* the last storage call: its kind and its return value
  issued,    \* history: per collection, the ids handed out by create, in order
  calls,     \* history: how many storage calls have been made
  sessionStore,  \* the session of each cookie (express-session's store)
  response,      \* the HTTP response to the last request
  microtasks,    \* the continuations of the calls suspended at an await
  browser        \* the client: AuthProvider, the route shown, localStorage

vars == <<users, departments, courses, modules, moduleElements,
          teacherModuleElements, students, studentGroups,
          studentGroupAssignments, sessions, absences, nextIds, last, issued,
          calls, sessionStore, response, microtasks, browser>>

\* what lies outside the repository: a storage call by itself touches none
outside == <<sessionStore, response, microtasks, browser>>

----------------------------------------------------------------------------
(* Bounds of the model                                                      *)

\* how many storage calls the callers make in one run
MaxOps == 3

\* the longest array given to batchCreateAbsences
MaxBatch == 2

\* how many calls a run of the assignment tables makes
MaxGroupOps == 5

\* how many calls a run of the absence reports makes
MaxReportOps == 3

\* the students of the largest roll call
MaxRoll == 6

\* how many writing calls a run of the reads makes
MaxWrites == 2

\* how many requests a run of the writing routes makes
MaxAccessOps == 3

\* how many requests a run of the user routes makes
MaxUserOps == 3

\* how many requests arrive in a run of the event loop
MaxRequests == 3

\* how many requests are in flight together under the free scheduler
MaxConcurrent == 2

\* how many times the visitor of the client acts
MaxClientOps == 3

----------------------------------------------------------------------------
(* JavaScript values                                                        *)

\* the value `undefined` returned by Map.get / Array.find on a miss
Undefined == [undefined |-> TRUE]

\* the value `null`
Null == [null |-> TRUE]

\* object spread { ...a, ...b }: the keys of both, b's value where both have one
Spread(a, b) ==
  [f \in (DOMAIN a) \cup (DOMAIN b) |-> IF f \in DOMAIN b THEN b[f] ELSE a[f]]

\* Map.prototype.has
MapHas(m, k) == \E i \in 1..Len(m) : m[i].key = k

\* Map.prototype.get
MapGet(m, k) ==
  IF MapHas(m, k)
  THEN m[CHOOSE i \in 1..Len(m) : m[i].key = k].val
  ELSE Undefined

\* Map.prototype.set: a present key keeps its place, a new key goes last
MapSet(m, k, v) ==
  IF MapHas(m, k)
  THEN [i \in 1..Len(m) |-> IF m[i].key = k THEN [key |-> k, val |-> v] ELSE m[i]]
  ELSE Append(m, [key |-> k, val |-> v])

\* Map.prototype.delete: the map without the entry of k
MapDelete(m, k) ==
  LET Keep(e) == e.key # k IN SelectSeq(m, Keep)

\* Array.from(map.values())
MapValues(m) == [i \in 1..Len(m) |-> m[i].val]

\* Array.prototype.find(a => a[f] === v && a[g] === w): the first element
\* with both values, or undefined
FindBoth(s, f, v, g, w) ==
  LET Test(a) == a[f] = v /\ a[g] = w
  IN IF \E i \in 1..Len(s) : Test(s[i])
     THEN s[CHOOSE i \in 1..Len(s) : Test(s[i]) /\ \A j \in 1..(i - 1) : ~Test(s[j])]
     ELSE Undefined

\* Array.prototype.filter(x => x[f] === v)
FilterEq(s, f, v) ==
  LET Test(x) == x[f] = v IN SelectSeq(s, Test)

\* Array.prototype.includes
Includes(s, x) == \E i \in 1..Len(s) : s[i] = x

\* Array.prototype.map(a => a[f])
Pluck(s, f) == [i \in 1..Len(s) |-> s[i][f]]

\* Array.prototype.find(x => x[f] === v): the first such element, or undefined
FindEq(s, f, v) ==
  IF \E i \in 1..Len(s) : s[i][f] = v
  THEN s[CHOOSE i \in 1..Len(s) : s[i][f] = v /\ \A j \in 1..(i - 1) : s[j][f] # v]
  ELSE Undefined

\* Array.prototype.sort((a, b) => b[f] - a[f]): descending by f; the sort is
\* stable, elements with equal f keep the order they had
RECURSIVE SortDescending(_, _)
SortDescending(s, f) ==
  IF s = <<>>
  THEN <<>>
  ELSE LET sorted == SortDescending(SubSeq(s, 1, Len(s) - 1), f)
           x == s[Len(s)]
           n == Cardinality({i \in 1..Len(sorted) : sorted[i][f] >= x[f]})
       IN SubSeq(sorted, 1, n) \o <<x>> \o SubSeq(sorted, n + 1, Len(sorted))

\* Array.prototype.slice(0, end): a negative end counts from the end of the
\* array, and the end is clamped to the array
Slice(s, end) ==
  LET final == IF end < 0
               THEN (IF Len(s) + end < 0 THEN 0 ELSE Len(s) + end)
               ELSE (IF end < Len(s) THEN end ELSE Len(s))
  IN SubSeq(s, 1, final)

\* { ...data, id }: the record a create stores and returns
WithId(data, id) == Spread(data, [id |-> id])

----------------------------------------------------------------------------
(* Frames: the collections a method of one collection never touches        *)

exceptUsers ==
  <<departments, courses, modules, moduleElements,
    teacherModuleElements, students, studentGroups,
    studentGroupAssignments, sessions, absences>>

exceptDepartments ==
  <<users, courses, modules, moduleElements, teacherModuleElements,
    students, studentGroups, studentGroupAssignments, sessions,
    absences>>

exceptCourses ==
  <<users, departments, modules, moduleElements,
    teacherModuleElements, students, studentGroups,
    studentGroupAssignments, sessions, absences>>

exceptModules ==
  <<users, departments, courses, moduleElements,
    teacherModuleElements, students, studentGroups,
    studentGroupAssignments, sessions, absences>>

exceptModuleElements ==
  <<users, departments, courses, modules, teacherModuleElements,
    students, studentGroups, studentGroupAssignments, sessions,
    absences>>

exceptTeacherModuleElements ==
  <<users, departments, courses, modules, moduleElements, students,
    studentGroups, studentGroupAssignments, sessions, absences>>

exceptStudents ==
  <<users, departments, courses, modules, moduleElements,
    teacherModuleElements, studentGroups, studentGroupAssignments,
    sessions, absences>>

exceptStudentGroups ==
  <<users, departments, courses, modules, moduleElements,
    teacherModuleElements, students, studentGroupAssignments,
    sessions, absences>>

exceptStudentGroupAssignments ==
  <<users, departments, courses, modules, moduleElements,
    teacherModuleElements, students, studentGroups, sessions, absences>>

exceptSessions ==
  <<users, departments, courses, modules, moduleElements,
    teacherModuleElements, students, studentGroups,
    studentGroupAssignments, absences>>

exceptAbsences ==
  <<users, departments, courses, modules, moduleElements,
    teacherModuleElements, students, studentGroups,
    studentGroupAssignments, sessions>>

----------------------------------------------------------------------------
(* User operations *)

getUser(id) == MapGet(users, id)

listUsers == MapValues(users)

\* createUser with the id taken from the map's size instead of the counter
createUserIdFromSize(user) ==
  LET id == Len(users) + 1
      newUser == WithId(user, id)
  IN /\ users' = MapSet(users, id, newUser)
     /\ last' = [op |-> "create", ret |-> newUser]
     /\ issued' = [issued EXCEPT !.users = Append(@, newUser.id)]
     /\ UNCHANGED <<exceptUsers, nextIds>>

createUser(user) ==
  LET id == nextIds.users
      newUser == WithId(user, id)
  IN /\ nextIds' = [nextIds EXCEPT !.users = @ + 1]
     /\ users' = MapSet(users, id, newUser)
     /\ last' = [op |-> "create", ret |-> newUser]
     /\ issued' = [issued EXCEPT !.users = Append(@, newUser.id)]
     /\ UNCHANGED exceptUsers

\* updateUser without the existence check: a missing id is stored (an upsert)
updateUserUpsert(id, user) ==
  LET existingUser == MapGet(users, id)
      updatedUser == IF existingUser = Undefined THEN WithId(user, id)
                     ELSE Spread(existingUser, user)
  IN /\ users' = MapSet(users, id, updatedUser)
     /\ last' = [op |-> "update", ret |-> updatedUser]
     /\ UNCHANGED <<exceptUsers, nextIds, issued>>

updateUser(id, user) ==
  LET existingUser == MapGet(users, id)
      updatedUser == Spread(existingUser, user)
  IN IF existingUser = Undefined
     THEN /\ last' = [op |-> "update", ret |-> Undefined]
          /\ UNCHANGED <<users, exceptUsers, nextIds, issued>>
     ELSE /\ users' = MapSet(users, id, updatedUser)
          /\ last' = [op |-> "update", ret |-> updatedUser]
          /\ UNCHANGED <<exceptUsers, nextIds, issued>>

deleteUser(id) ==
  /\ users' = MapDelete(users, id)
  /\ last' = [op |-> "delete", ret |-> MapHas(users, id)]
  /\ UNCHANGED <<exceptUsers, nextIds, issued>>

----------------------------------------------------------------------------
(* Department operations *)

getDepartment(id) == MapGet(departments, id)

listDepartments == MapValues(departments)

createDepartment(department) ==
  LET id == nextIds.departments
      newDepartment == WithId(department, id)
  IN /\ nextIds' = [nextIds EXCEPT !.departments = @ + 1]
     /\ departments' = MapSet(departments, id, newDepartment)
     /\ last' = [op |-> "create", ret |-> newDepartment]
     /\ issued' = [issued EXCEPT !.departments = Append(@, newDepartment.id)]
     /\ UNCHANGED exceptDepartments

updateDepartment(id, department) ==
  LET existingDepartment == MapGet(departments, id)
      updatedDepartment == Spread(existingDepartment, department)
  IN IF existingDepartment = Undefined
     THEN /\ last' = [op |-> "update", ret |-> Undefined]
          /\ UNCHANGED <<departments, exceptDepartments, nextIds, issued>>
     ELSE /\ departments' = MapSet(departments, id, updatedDepartment)
          /\ last' = [op |-> "update", ret |-> updatedDepartment]
          /\ UNCHANGED <<exceptDepartments, nextIds, issued>>

deleteDepartment(id) ==
  /\ departments' = MapDelete(departments, id)
  /\ last' = [op |-> "delete", ret |-> MapHas(departments, id)]
  /\ UNCHANGED <<exceptDepartments, nextIds, issued>>

----------------------------------------------------------------------------
(* Course operations *)

getCourse(id) == MapGet(courses, id)

listCourses == MapValues(courses)

\* createCourse that keeps course codes unique: a course whose code is
\* already stored replaces the stored one
createCourseUniqueCode(course) ==
  LET existing == FindEq(MapValues(courses), "code", course.code)
      id == IF existing = Undefined THEN nextIds.courses ELSE existing.id
      newCourse == WithId(course, id)
  IN /\ nextIds' = IF existing = Undefined
                   THEN [nextIds EXCEPT !.courses = @ + 1]
                   ELSE nextIds
     /\ courses' = MapSet(courses, id, newCourse)
     /\ last' = [op |-> "create", ret |-> newCourse]
     /\ issued' = [issued EXCEPT !.courses = Append(@, newCourse.id)]
     /\ UNCHANGED exceptCourses

createCourse(course) ==
  LET id == nextIds.courses
      newCourse == WithId(course, id)
  IN /\ nextIds' = [nextIds EXCEPT !.courses = @ + 1]
     /\ courses' = MapSet(courses, id, newCourse)
     /\ last' = [op |-> "create", ret |-> newCourse]
     /\ issued' = [issued EXCEPT !.courses = Append(@, newCourse.id)]
     /\ UNCHANGED exceptCourses

\* updateCourse that stores { ...course, id } instead of merging onto the
\* stored record
updateCourseReplacing(id, course) ==
  LET existingCourse == MapGet(courses, id)
      updatedCourse == WithId(course, id)
  IN IF existingCourse = Undefined
     THEN /\ last' = [op |-> "update", ret |-> Undefined]
          /\ UNCHANGED <<courses, exceptCourses, nextIds, issued>>
     ELSE /\ courses' = MapSet(courses, id, updatedCourse)
          /\ last' = [op |-> "update", ret |-> updatedCourse]
          /\ UNCHANGED <<exceptCourses, nextIds, issued>>

updateCourse(id, course) ==
  LET existingCourse == MapGet(courses, id)
      updatedCourse == Spread(existingCourse, course)
  IN IF existingCourse = Undefined
     THEN /\ last' = [op |-> "update", ret |-> Undefined]
          /\ UNCHANGED <<courses, exceptCourses, nextIds, issued>>
     ELSE /\ courses' = MapSet(courses, id, updatedCourse)
          /\ last' = [op |-> "update", ret |-> updatedCourse]
          /\ UNCHANGED <<exceptCourses, nextIds, issued>>

\* deleteCourse that also deletes the students of the course
deleteCourseCascading(id) ==
  LET Elsewhere(e) == e.val.courseId # id
  IN /\ courses' = MapDelete(courses, id)
     /\ students' = SelectSeq(students, Elsewhere)
     /\ last' = [op |-> "delete", ret |-> MapHas(courses, id)]
     /\ UNCHANGED <<users, departments, modules, moduleElements,
                    teacherModuleElements, studentGroups,
                    studentGroupAssignments, sessions, absences, nextIds, issued>>

\* deleteCourse that reports success whether or not the id was there
deleteCourseReturningTrue(id) ==
  /\ courses' = MapDelete(courses, id)
  /\ last' = [op |-> "delete", ret |-> TRUE]
  /\ UNCHANGED <<exceptCourses, nextIds, issued>>

deleteCourse(id) ==
  /\ courses' = MapDelete(courses, id)
  /\ last' = [op |-> "delete", ret |-> MapHas(courses, id)]
  /\ UNCHANGED <<exceptCourses, nextIds, issued>>

----------------------------------------------------------------------------
(* Module operations *)

getModule(id) == MapGet(modules, id)

listModules == MapValues(modules)

createModule(module) ==
  LET id == nextIds.modules
      newModule == WithId(module, id)
  IN /\ nextIds' = [nextIds EXCEPT !.modules = @ + 1]
     /\ modules' = MapSet(modules, id, newModule)
     /\ last' = [op |-> "create", ret |-> newModule]
     /\ issued' = [issued EXCEPT !.modules = Append(@, newModule.id)]
     /\ UNCHANGED exceptModules

updateModule(id, module) ==
  LET existingModule == MapGet(modules, id)
      updatedModule == Spread(existingModule, module)
  IN IF existingModule = Undefined
     THEN /\ last' = [op |-> "update", ret |-> Undefined]
          /\ UNCHANGED <<modules, exceptModules, nextIds, issued>>
     ELSE /\ modules' = MapSet(modules, id, updatedModule)
          /\ last' = [op |-> "update", ret |-> updatedModule]
          /\ UNCHANGED <<exceptModules, nextIds, issued>>

deleteModule(id) ==
  /\ modules' = MapDelete(modules, id)
  /\ last' = [op |-> "delete", ret |-> MapHas(modules, id)]
  /\ UNCHANGED <<exceptModules, nextIds, issued>>

----------------------------------------------------------------------------
(* ModuleElement operations *)

getModuleElement(id) == MapGet(moduleElements, id)

listModuleElements == MapValues(moduleElements)

createModuleElement(moduleElement) ==
  LET id == nextIds.moduleElements
      newModuleElement == WithId(moduleElement, id)
  IN /\ nextIds' = [nextIds EXCEPT !.moduleElements = @ + 1]
     /\ moduleElements' = MapSet(moduleElements, id, newModuleElement)
     /\ last' = [op |-> "create", ret |-> newModuleElement]
     /\ issued' = [issued EXCEPT !.moduleElements = Append(@, newModuleElement.id)]
     /\ UNCHANGED exceptModuleElements

updateModuleElement(id, moduleElement) ==
  LET existingModuleElement == MapGet(moduleElements, id)
      updatedModuleElement == Spread(existingModuleElement, moduleElement)
  IN IF existingModuleElement = Undefined
     THEN /\ last' = [op |-> "update", ret |-> Undefined]
          /\ UNCHANGED <<moduleElements, exceptModuleElements, nextIds, issued>>
     ELSE /\ moduleElements' = MapSet(moduleElements, id, updatedModuleElement)
          /\ last' = [op |-> "update", ret |-> updatedModuleElement]
          /\ UNCHANGED <<exceptModuleElements, nextIds, issued>>

deleteModuleElement(id) ==
  /\ moduleElements' = MapDelete(moduleElements, id)
  /\ last' = [op |-> "delete", ret |-> MapHas(moduleElements, id)]
  /\ UNCHANGED <<exceptModuleElements, nextIds, issued>>

----------------------------------------------------------------------------
(* Student operations *)

getStudent(id) == MapGet(students, id)

listStudents == MapValues(students)

createStudent(student) ==
  LET id == nextIds.students
      newStudent == WithId(student, id)
  IN /\ nextIds' = [nextIds EXCEPT !.students = @ + 1]
     /\ students' = MapSet(students, id, newStudent)
     /\ last' = [op |-> "create", ret |-> newStudent]
     /\ issued' = [issued EXCEPT !.students = Append(@, newStudent.id)]
     /\ UNCHANGED exceptStudents

\* updateStudent that deletes the entry and sets it again, which moves the
\* record to the end of the map
updateStudentReinserting(id, student) ==
  LET existingStudent == MapGet(students, id)
      updatedStudent == Spread(existingStudent, student)
  IN IF existingStudent = Undefined
     THEN /\ last' = [op |-> "update", ret |-> Undefined]
          /\ UNCHANGED <<students, exceptStudents, nextIds, issued>>
     ELSE /\ students' = MapSet(MapDelete(students, id), id, updatedStudent)
          /\ last' = [op |-> "update", ret |-> updatedStudent]
          /\ UNCHANGED <<exceptStudents, nextIds, issued>>

updateStudent(id, student) ==
  LET existingStudent == MapGet(students, id)
      updatedStudent == Spread(existingStudent, student)
  IN IF existingStudent = Undefined
     THEN /\ last' = [op |-> "update", ret |-> Undefined]
          /\ UNCHANGED <<students, exceptStudents, nextIds, issued>>
     ELSE /\ students' = MapSet(students, id, updatedStudent)
          /\ last' = [op |-> "update", ret |-> updatedStudent]
          /\ UNCHANGED <<exceptStudents, nextIds, issued>>

deleteStudent(id) ==
  /\ students' = MapDelete(students, id)
  /\ last' = [op |-> "delete", ret |-> MapHas(students, id)]
  /\ UNCHANGED <<exceptStudents, nextIds, issued>>

----------------------------------------------------------------------------
(* StudentGroup operations *)

getStudentGroup(id) == MapGet(studentGroups, id)

listStudentGroups == MapValues(studentGroups)

createStudentGroup(group) ==
  LET id == nextIds.studentGroups
      newGroup == WithId(group, id)
  IN /\ nextIds' = [nextIds EXCEPT !.studentGroups = @ + 1]
     /\ studentGroups' = MapSet(studentGroups, id, newGroup)
     /\ last' = [op |-> "create", ret |-> newGroup]
     /\ issued' = [issued EXCEPT !.studentGroups = Append(@, newGroup.id)]
     /\ UNCHANGED exceptStudentGroups

updateStudentGroup(id, group) ==
  LET existingGroup == MapGet(studentGroups, id)
      updatedGroup == Spread(existingGroup, group)
  IN IF existingGroup = Undefined
     THEN /\ last' = [op |-> "update", ret |-> Undefined]
          /\ UNCHANGED <<studentGroups, exceptStudentGroups, nextIds, issued>>
     ELSE /\ studentGroups' = MapSet(studentGroups, id, updatedGroup)
          /\ last' = [op |-> "update", ret |-> updatedGroup]
          /\ UNCHANGED <<exceptStudentGroups, nextIds, issued>>

deleteStudentGroup(id) ==
  /\ studentGroups' = MapDelete(studentGroups, id)
  /\ last' = [op |-> "delete", ret |-> MapHas(studentGroups, id)]
  /\ UNCHANGED <<exceptStudentGroups, nextIds, issued>>

----------------------------------------------------------------------------
(* Session operations *)

getSession(id) == MapGet(sessions, id)

listSessions == MapValues(sessions)

createSession(session) ==
  LET id == nextIds.sessions
      newSession == WithId(session, id)
  IN /\ nextIds' = [nextIds EXCEPT !.sessions = @ + 1]
     /\ sessions' = MapSet(sessions, id, newSession)
     /\ last' = [op |-> "create", ret |-> newSession]
     /\ issued' = [issued EXCEPT !.sessions = Append(@, newSession.id)]
     /\ UNCHANGED exceptSessions

updateSession(id, session) ==
  LET existingSession == MapGet(sessions, id)
      updatedSession == Spread(existingSession, session)
  IN IF existingSession = Undefined
     THEN /\ last' = [op |-> "update", ret |-> Undefined]
          /\ UNCHANGED <<sessions, exceptSessions, nextIds, issued>>
     ELSE /\ sessions' = MapSet(sessions, id, updatedSession)
          /\ last' = [op |-> "update", ret |-> updatedSession]
          /\ UNCHANGED <<exceptSessions, nextIds, issued>>

deleteSession(id) ==
  /\ sessions' = MapDelete(sessions, id)
  /\ last' = [op |-> "delete", ret |-> MapHas(sessions, id)]
  /\ UNCHANGED <<exceptSessions, nextIds, issued>>

----------------------------------------------------------------------------
(* Absence operations *)

getAbsence(id) == MapGet(absences, id)

listAbsences == MapValues(absences)

\* createAbsence that refuses the row of a stored student whose "absent" rows
\* have reached the absenceThreshold of the student's course
createAbsenceBlocking(absence) ==
  LET id == nextIds.absences
      newAbsence == WithId(absence, id)
      student == MapGet(students, absence.studentId)
      course == IF student = Undefined THEN Undefined
                ELSE MapGet(courses, student.courseId)
      IsAbsent(a) == a.studentId = absence.studentId /\ a.status = "absent"
      reached == /\ course # Undefined
                 /\ "absenceThreshold" \in DOMAIN course
                 /\ Len(SelectSeq(MapValues(absences), IsAbsent)) >= course.absenceThreshold
  IN IF reached
     THEN /\ last' = [op |-> "create", ret |-> Undefined]
          /\ UNCHANGED <<absences, nextIds, issued, exceptAbsences>>
     ELSE /\ nextIds' = [nextIds EXCEPT !.absences = @ + 1]
          /\ absences' = MapSet(absences, id, newAbsence)
          /\ last' = [op |-> "create", ret |-> newAbsence]
          /\ issued' = [issued EXCEPT !.absences = Append(@, newAbsence.id)]
          /\ UNCHANGED exceptAbsences

createAbsence(absence) ==
  LET id == nextIds.absences
      newAbsence == WithId(absence, id)
  IN /\ nextIds' = [nextIds EXCEPT !.absences = @ + 1]
     /\ absences' = MapSet(absences, id, newAbsence)
     /\ last' = [op |-> "create", ret |-> newAbsence]
     /\ issued' = [issued EXCEPT !.absences = Append(@, newAbsence.id)]
     /\ UNCHANGED exceptAbsences

updateAbsence(id, absence) ==
  LET existingAbsence == MapGet(absences, id)
      updatedAbsence == Spread(existingAbsence, absence)
  IN IF existingAbsence = Undefined
     THEN /\ last' = [op |-> "update", ret |-> Undefined]
          /\ UNCHANGED <<absences, exceptAbsences, nextIds, issued>>
     ELSE /\ absences' = MapSet(absences, id, updatedAbsence)
          /\ last' = [op |-> "update", ret |-> updatedAbsence]
          /\ UNCHANGED <<exceptAbsences, nextIds, issued>>

deleteAbsence(id) ==
  /\ absences' = MapDelete(absences, id)
  /\ last' = [op |-> "delete", ret |-> MapHas(absences, id)]
  /\ UNCHANGED <<exceptAbsences, nextIds, issued>>

listCoursesByDepartment(departmentId) ==
  FilterEq(MapValues(courses), "departmentId", departmentId)

listModulesByCourse(courseId) ==
  FilterEq(MapValues(modules), "courseId", courseId)

listModuleElementsByModule(moduleId) ==
  FilterEq(MapValues(moduleElements), "moduleId", moduleId)

\* the filter with a test that every student passes
listStudentsByCourseUnfiltered(courseId) == MapValues(students)

listStudentsByCourse(courseId) ==
  FilterEq(MapValues(students), "courseId", courseId)

listStudentGroupsByCourse(courseId) ==
  FilterEq(MapValues(studentGroups), "courseId", courseId)

listSessionsByTeacher(teacherId) ==
  FilterEq(MapValues(sessions), "teacherId", teacherId)

listSessionsByModuleElement(moduleElementId) ==
  FilterEq(MapValues(sessions), "moduleElementId", moduleElementId)

listAbsencesBySession(sessionId) ==
  FilterEq(MapValues(absences), "sessionId", sessionId)

listAbsencesByStudent(studentId) ==
  FilterEq(MapValues(absences), "studentId", studentId)

----------------------------------------------------------------------------
(* Teacher Module Element operations *)

assignTeacherToModuleElement(assignment) ==
  LET id == nextIds.teacherModuleElements
      newAssignment == WithId(assignment, id)
  IN /\ nextIds' = [nextIds EXCEPT !.teacherModuleElements = @ + 1]
     /\ teacherModuleElements' = MapSet(teacherModuleElements, id, newAssignment)
     /\ last' = [op |-> "assign", ret |-> newAssignment]
     /\ issued' = [issued EXCEPT !.teacherModuleElements = Append(@, newAssignment.id)]
     /\ UNCHANGED exceptTeacherModuleElements

removeTeacherFromModuleElement(teacherId, moduleElementId) ==
  LET assignment == FindBoth(MapValues(teacherModuleElements),
                            "teacherId", teacherId,
                            "moduleElementId", moduleElementId)
  IN IF assignment = Undefined
     THEN /\ last' = [op |-> "remove", ret |-> FALSE]
          /\ UNCHANGED <<teacherModuleElements, exceptTeacherModuleElements,
                         nextIds, issued>>
     ELSE /\ teacherModuleElements' = MapDelete(teacherModuleElements, assignment.id)
          /\ last' = [op |-> "remove", ret |-> MapHas(teacherModuleElements, assignment.id)]
          /\ UNCHANGED <<exceptTeacherModuleElements, nextIds, issued>>

listTeacherModuleElements(teacherId) ==
  FilterEq(MapValues(teacherModuleElements), "teacherId", teacherId)

----------------------------------------------------------------------------
(* Student Group Assignment operations *)

\* assignStudentToGroup that builds and returns the row without storing it
assignStudentToGroupUnstored(assignment) ==
  LET id == nextIds.studentGroupAssignments
      newAssignment == WithId(assignment, id)
  IN /\ nextIds' = [nextIds EXCEPT !.studentGroupAssignments = @ + 1]
     /\ last' = [op |-> "assign", ret |-> newAssignment]
     /\ issued' = [issued EXCEPT !.studentGroupAssignments = Append(@, newAssignment.id)]
     /\ UNCHANGED <<studentGroupAssignments, exceptStudentGroupAssignments>>

assignStudentToGroup(assignment) ==
  LET id == nextIds.studentGroupAssignments
      newAssignment == WithId(assignment, id)
  IN /\ nextIds' = [nextIds EXCEPT !.studentGroupAssignments = @ + 1]
     /\ studentGroupAssignments' = MapSet(studentGroupAssignments, id, newAssignment)
     /\ last' = [op |-> "assign", ret |-> newAssignment]
     /\ issued' = [issued EXCEPT !.studentGroupAssignments = Append(@, newAssignment.id)]
     /\ UNCHANGED exceptStudentGroupAssignments

\* removeStudentFromGroup that deletes every row of the pair, not the first
removeStudentFromGroupEvery(studentId, groupId) ==
  LET Other(e) == ~(e.val.studentId = studentId /\ e.val.groupId = groupId)
      remaining == SelectSeq(studentGroupAssignments, Other)
  IN /\ studentGroupAssignments' = remaining
     /\ last' = [op |-> "remove", ret |-> remaining # studentGroupAssignments]
     /\ UNCHANGED <<exceptStudentGroupAssignments, nextIds, issued>>

removeStudentFromGroup(studentId, groupId) ==
  LET assignment == FindBoth(MapValues(studentGroupAssignments),
                            "studentId", studentId, "groupId", groupId)
  IN IF assignment = Undefined
     THEN /\ last' = [op |-> "remove", ret |-> FALSE]
          /\ UNCHANGED <<studentGroupAssignments, exceptStudentGroupAssignments,
                         nextIds, issued>>
     ELSE /\ studentGroupAssignments' =
               MapDelete(studentGroupAssignments, assignment.id)
          /\ last' = [op |-> "remove", ret |-> MapHas(studentGroupAssignments, assignment.id)]
          /\ UNCHANGED <<exceptStudentGroupAssignments, nextIds, issued>>

listStudentGroupAssignments(groupId) ==
  FilterEq(MapValues(studentGroupAssignments), "groupId", groupId)

\* the join computed row by row: one student per assignment row, in row order
listStudentsByGroupPerRow(groupId) ==
  LET assignments == listStudentGroupAssignments(groupId)
      Stored(a) == MapHas(students, a.studentId)
      rows == SelectSeq(assignments, Stored)
  IN [i \in 1..Len(rows) |-> MapGet(students, rows[i].studentId)]

listStudentsByGroup(groupId) ==
  LET assignments == listStudentGroupAssignments(groupId)
      studentIds == Pluck(assignments, "studentId")
      Test(student) == Includes(studentIds, student.id)
  IN SelectSeq(MapValues(students), Test)

----------------------------------------------------------------------------
(* batchCreateAbsences: createAbsence for each input, in input order. Each  *)
(* await in the loop waits on a promise that is already resolved, so the    *)
(* loop continues in microtasks of the task that made the call and no other *)
(* request runs in between: the whole call is one step. AbsencesAfter and   *)
(* CreatedAfter are the map and the result list after the items of xs.      *)

RECURSIVE AbsencesAfter(_, _, _)
AbsencesAfter(m, next, xs) ==
  IF xs = <<>> THEN m
  ELSE AbsencesAfter(MapSet(m, next, WithId(Head(xs), next)), next + 1, Tail(xs))

RECURSIVE CreatedAfter(_, _)
CreatedAfter(next, xs) ==
  IF xs = <<>> THEN <<>>
  ELSE <<WithId(Head(xs), next)>> \o CreatedAfter(next + 1, Tail(xs))

\* batchCreateAbsences that returns the created records last-first
batchCreateAbsencesReversed(xs) ==
  LET createdAbsences == CreatedAfter(nextIds.absences, xs)
      n == Len(createdAbsences)
  IN /\ absences' = AbsencesAfter(absences, nextIds.absences, xs)
     /\ nextIds' = [nextIds EXCEPT !.absences = @ + Len(xs)]
     /\ last' = [op |-> "batchCreate",
                 ret |-> [i \in 1..n |-> createdAbsences[n + 1 - i]]]
     /\ issued' = [issued EXCEPT !.absences = @ \o Pluck(createdAbsences, "id")]
     /\ UNCHANGED exceptAbsences

batchCreateAbsences(xs) ==
  LET createdAbsences == CreatedAfter(nextIds.absences, xs)
  IN /\ absences' = AbsencesAfter(absences, nextIds.absences, xs)
     /\ nextIds' = [nextIds EXCEPT !.absences = @ + Len(xs)]
     /\ last' = [op |-> "batchCreate", ret |-> createdAbsences]
     /\ issued' = [issued EXCEPT !.absences = @ \o Pluck(createdAbsences, "id")]
     /\ UNCHANGED exceptAbsences

----------------------------------------------------------------------------
(* The constructor's three seeded users                                     *)

SeedUsers ==
  << [username |-> "admin", password |-> "admin", fullName |-> "Administrator",
      email |-> "admin@example.com", role |-> "admin"],
     [username |-> "teacher", password |-> "teacher", fullName |-> "Teacher",
      email |-> "teacher@example.com", role |-> "teacher"],
     [username |-> "head_d", password |-> "head_d", fullName |-> "Department Head",
      email |-> "head_d@example.com", role |-> "departmentHead"] >>

\* the users map after createUser for each of the first n seeds, from empty
RECURSIVE SeededUsers(_)
SeededUsers(n) ==
  IF n = 0 THEN <<>>
  ELSE MapSet(SeededUsers(n - 1), n, WithId(SeedUsers[n], n))

\* the cookies of the browsers that talk to the server
Cookies == {"c1", "c2"}

\* the tab before the page is opened: nothing mounted, nothing cached
ClosedTab ==
  [page |-> "about:blank", user |-> Null, localStorage |-> Null,
   sessionData |-> Undefined, queryLoading |-> FALSE, loginPending |-> FALSE,
   loginVariables |-> Undefined,
   previouslyAuthenticated |-> FALSE, authInitialized |-> FALSE,
   sessionEffectDue |-> FALSE, routeEffectDue |-> FALSE]

\* the server has just started and no page is open: no session holds a
\* login, no request was answered, nothing is suspended
InitOutside ==
  /\ sessionStore = [cookie \in Cookies |-> <<>>]
  /\ response = Undefined
  /\ microtasks = <<>>
  /\ browser = ClosedTab

\* the constructor storing the seeds under the ids 1, 2, 3 without taking
\* them from the counter
InitSeedsBesideCounter ==
  /\ users = SeededUsers(Len(SeedUsers))
  /\ departments = <<>>
  /\ courses = <<>>
  /\ modules = <<>>
  /\ moduleElements = <<>>
  /\ teacherModuleElements = <<>>
  /\ students = <<>>
  /\ studentGroups = <<>>
  /\ studentGroupAssignments = <<>>
  /\ sessions = <<>>
  /\ absences = <<>>
  /\ nextIds = [users |-> 1, departments |-> 1, courses |-> 1,
                modules |-> 1, moduleElements |-> 1, teacherModuleElements |-> 1,
                students |-> 1, studentGroups |-> 1, studentGroupAssignments |-> 1,
                sessions |-> 1, absences |-> 1]
  /\ last = [op |-> "constructor", ret |-> Undefined]
  /\ issued = [c \in DOMAIN nextIds |-> IF c = "users" THEN <<1, 2, 3>> ELSE <<>>]
  /\ calls = 0
  /\ InitOutside

Init ==
  /\ users = SeededUsers(Len(SeedUsers))
  /\ departments = <<>>
  /\ courses = <<>>
  /\ modules = <<>>
  /\ moduleElements = <<>>
  /\ teacherModuleElements = <<>>
  /\ students = <<>>
  /\ studentGroups = <<>>
  /\ studentGroupAssignments = <<>>
  /\ sessions = <<>>
  /\ absences = <<>>
  /\ nextIds = [users |-> Len(SeedUsers) + 1, departments |-> 1, courses |-> 1,
                modules |-> 1, moduleElements |-> 1, teacherModuleElements |-> 1,
                students |-> 1, studentGroups |-> 1, studentGroupAssignments |-> 1,
                sessions |-> 1, absences |-> 1]
  /\ last = [op |-> "constructor", ret |-> Undefined]
  /\ issued = [users |-> [i \in 1..Len(SeedUsers) |-> i], departments |-> <<>>,
               courses |-> <<>>, modules |-> <<>>, moduleElements |-> <<>>,
               teacherModuleElements |-> <<>>, students |-> <<>>,
               studentGroups |-> <<>>, studentGroupAssignments |-> <<>>,
               sessions |-> <<>>, absences |-> <<>>]
  /\ calls = 0
  /\ InitOutside

----------------------------------------------------------------------------
(* The callers' inputs: well-typed InsertT values for create, and for update *)
(* the Partial<InsertT> values that the PUT routes obtain from a request    *)
(* body with insertXSchema.partial().parse: a zod object schema keeps the   *)
(* schema's own keys and strips every other key, and the insert schemas     *)
(* omit id.                                                                 *)

\* a schema that passes unknown keys through
StripNothing(body, keys) == body

Strip(body, keys) == [f \in (DOMAIN body) \cap keys |-> body[f]]

InsertUsers ==
  { [username |-> "u", password |-> "pw", fullName |-> "New User",
     email |-> "u@example.com", role |-> "teacher"] }

InsertUserKeys ==
  {"username", "password", "fullName", "email", "role", "departmentId"}

PutUserBodies ==
  { [role |-> "admin", departmentId |-> 1],
    [id |-> 9, role |-> "admin", departmentId |-> 1] }

PartialUsers == { Strip(body, InsertUserKeys) : body \in PutUserBodies }

InsertDepartments == { [name |-> "Informatique"] }

InsertDepartmentKeys ==
  {"name", "description"}

PutDepartmentBodies ==
  { [description |-> "d"],
    [id |-> 9, description |-> "d"] }

PartialDepartments == { Strip(body, InsertDepartmentKeys) : body \in PutDepartmentBodies }

InsertCourses ==
  { [name |-> "GI", code |-> "GI1", departmentId |-> 1] }

InsertCourseKeys ==
  {"name", "code", "description", "departmentId", "absenceThreshold"}

PutCourseBodies ==
  { [departmentId |-> 2],
    [absenceThreshold |-> 2, description |-> "d"],
    [id |-> 9, departmentId |-> 2] }

PartialCourses == { Strip(body, InsertCourseKeys) : body \in PutCourseBodies }

InsertModules == { [name |-> "Algo", code |-> "M1", courseId |-> 1] }

InsertModuleKeys ==
  {"name", "code", "description", "courseId"}

PutModuleBodies ==
  { [courseId |-> 2],
    [id |-> 9, courseId |-> 2] }

PartialModules == { Strip(body, InsertModuleKeys) : body \in PutModuleBodies }

InsertModuleElements == { [name |-> "Cours", code |-> "E1", moduleId |-> 1] }

InsertModuleElementKeys ==
  {"name", "code", "description", "moduleId"}

PutModuleElementBodies ==
  { [moduleId |-> 2, name |-> "TP"],
    [id |-> 9, moduleId |-> 2, name |-> "TP"] }

PartialModuleElements == { Strip(body, InsertModuleElementKeys) : body \in PutModuleElementBodies }

InsertTeacherModuleElements == { [teacherId |-> 2, moduleElementId |-> 1] }

RemoveTeacherModuleElements ==
  { [teacherId |-> 2, moduleElementId |-> 1], [teacherId |-> 2, moduleElementId |-> 2] }

InsertStudents ==
  { [studentId |-> "E001", firstName |-> "A", lastName |-> "B",
     email |-> "a@example.com", courseId |-> 1] }

InsertStudentKeys ==
  {"studentId", "firstName", "lastName", "email", "courseId"}

PutStudentBodies ==
  { [courseId |-> 2],
    [id |-> 9, courseId |-> 2] }

PartialStudents == { Strip(body, InsertStudentKeys) : body \in PutStudentBodies }

InsertStudentGroups == { [name |-> "G1", type |-> "TD", courseId |-> 1] }

InsertStudentGroupKeys ==
  {"name", "type", "courseId"}

PutStudentGroupBodies ==
  { [courseId |-> 2, type |-> "TP"],
    [id |-> 9, courseId |-> 2, type |-> "TP"] }

PartialStudentGroups == { Strip(body, InsertStudentGroupKeys) : body \in PutStudentGroupBodies }

InsertStudentGroupAssignments == { [studentId |-> 1, groupId |-> 1] }

RemoveStudentGroupAssignments ==
  { [studentId |-> 1, groupId |-> 1], [studentId |-> 2, groupId |-> 1] }

InsertSessions ==
  { [date |-> 1, type |-> "course", moduleElementId |-> 1, teacherId |-> 2] }

InsertSessionKeys ==
  {"date", "type", "moduleElementId", "teacherId", "groupId", "notes"}

PutSessionBodies ==
  { [teacherId |-> 1, moduleElementId |-> 2],
    [id |-> 9, teacherId |-> 1, moduleElementId |-> 2] }

PartialSessions == { Strip(body, InsertSessionKeys) : body \in PutSessionBodies }

AbsentRow == [sessionId |-> 1, studentId |-> 1, status |-> "absent"]

PresentRow == [sessionId |-> 1, studentId |-> 2, status |-> "present"]

InsertAbsences == { AbsentRow, PresentRow }

InsertAbsenceKeys ==
  {"sessionId", "studentId", "status", "notes"}

PutAbsenceBodies ==
  { [sessionId |-> 2, status |-> "justified"],
    [id |-> 9, sessionId |-> 2, status |-> "justified"] }

PartialAbsences == { Strip(body, InsertAbsenceKeys) : body \in PutAbsenceBodies }

\* the id arguments tried on a collection: every id ever issued there, and
\* the next one, which was never issued
Ids(c) == 1..nextIds[c]

\* the bodies of POST /api/absences/batch: arrays of at most MaxBatch items
\* that alternate between the two InsertAbsences values, from either one
BatchInputs ==
  { [i \in 1..n |-> IF i % 2 = 1 THEN pair[1] ELSE pair[2]] :
      n \in 0..MaxBatch,
      pair \in {<<AbsentRow, PresentRow>>, <<PresentRow, AbsentRow>>} }

\* the run's budget of storage calls
CanCall == calls < MaxOps

Counted == calls' = calls + 1 /\ UNCHANGED outside

----------------------------------------------------------------------------
(* The repository under callers that issue any storage call *)

Next ==
  \/ \E user \in InsertUsers : CanCall /\ createUser(user) /\ Counted
  \/ \E id \in Ids("users"), user \in PartialUsers :
        CanCall /\ updateUser(id, user) /\ Counted
  \/ \E id \in Ids("users") : CanCall /\ deleteUser(id) /\ Counted
  \/ \E department \in InsertDepartments : CanCall /\ createDepartment(department) /\ Counted
  \/ \E id \in Ids("departments"), department \in PartialDepartments :
        CanCall /\ updateDepartment(id, department) /\ Counted
  \/ \E id \in Ids("departments") : CanCall /\ deleteDepartment(id) /\ Counted
  \/ \E course \in InsertCourses : CanCall /\ createCourse(course) /\ Counted
  \/ \E id \in Ids("courses"), course \in PartialCourses :
        CanCall /\ updateCourse(id, course) /\ Counted
  \/ \E id \in Ids("courses") : CanCall /\ deleteCourse(id) /\ Counted
  \/ \E module \in InsertModules : CanCall /\ createModule(module) /\ Counted
  \/ \E id \in Ids("modules"), module \in PartialModules :
        CanCall /\ updateModule(id, module) /\ Counted
  \/ \E id \in Ids("modules") : CanCall /\ deleteModule(id) /\ Counted
  \/ \E moduleElement \in InsertModuleElements : CanCall /\ createModuleElement(moduleElement) /\ Counted
  \/ \E id \in Ids("moduleElements"), moduleElement \in PartialModuleElements :
        CanCall /\ updateModuleElement(id, moduleElement) /\ Counted
  \/ \E id \in Ids("moduleElements") : CanCall /\ deleteModuleElement(id) /\ Counted
  \/ \E student \in InsertStudents : CanCall /\ createStudent(student) /\ Counted
  \/ \E id \in Ids("students"), student \in PartialStudents :
        CanCall /\ updateStudent(id, student) /\ Counted
  \/ \E id \in Ids("students") : CanCall /\ deleteStudent(id) /\ Counted
  \/ \E group \in InsertStudentGroups : CanCall /\ createStudentGroup(group) /\ Counted
  \/ \E id \in Ids("studentGroups"), group \in PartialStudentGroups :
        CanCall /\ updateStudentGroup(id, group) /\ Counted
  \/ \E id \in Ids("studentGroups") : CanCall /\ deleteStudentGroup(id) /\ Counted
  \/ \E session \in InsertSessions : CanCall /\ createSession(session) /\ Counted
  \/ \E id \in Ids("sessions"), session \in PartialSessions :
        CanCall /\ updateSession(id, session) /\ Counted
  \/ \E id \in Ids("sessions") : CanCall /\ deleteSession(id) /\ Counted
  \/ \E absence \in InsertAbsences : CanCall /\ createAbsence(absence) /\ Counted
  \/ \E id \in Ids("absences"), absence \in PartialAbsences :
        CanCall /\ updateAbsence(id, absence) /\ Counted
  \/ \E id \in Ids("absences") : CanCall /\ deleteAbsence(id) /\ Counted
  \/ \E assignment \in InsertTeacherModuleElements :
        CanCall /\ assignTeacherToModuleElement(assignment) /\ Counted
  \/ \E a \in RemoveTeacherModuleElements :
        CanCall /\ removeTeacherFromModuleElement(a.teacherId, a.moduleElementId) /\ Counted
  \/ \E assignment \in InsertStudentGroupAssignments :
        CanCall /\ assignStudentToGroup(assignment) /\ Counted
  \/ \E a \in RemoveStudentGroupAssignments :
        CanCall /\ removeStudentFromGroup(a.studentId, a.groupId) /\ Counted
  \/ \E xs \in BatchInputs : CanCall /\ batchCreateAbsences(xs) /\ Counted

Spec == Init /\ [][Next]_vars

\* The join tables with their students: the calls of the two assignment
\* tables and of the student collection only, with pairs that repeat
GroupPairs ==
  { [studentId |-> 1, groupId |-> 1],
    [studentId |-> 2, groupId |-> 1],
    [studentId |-> 1, groupId |-> 2] }

TeacherPairs ==
  { [teacherId |-> 2, moduleElementId |-> 1],
    [teacherId |-> 1, moduleElementId |-> 1] }

CanCallGroups == calls < MaxGroupOps

NextGroups ==
  \/ \E student \in InsertStudents :
        CanCallGroups /\ createStudent(student) /\ Counted
  \/ \E id \in Ids("students") :
        CanCallGroups /\ deleteStudent(id) /\ Counted
  \/ \E assignment \in GroupPairs :
        CanCallGroups /\ assignStudentToGroup(assignment) /\ Counted
  \/ \E a \in GroupPairs :
        CanCallGroups /\ removeStudentFromGroup(a.studentId, a.groupId) /\ Counted
  \/ \E assignment \in TeacherPairs :
        CanCallGroups /\ assignTeacherToModuleElement(assignment) /\ Counted
  \/ \E a \in TeacherPairs :
        CanCallGroups /\ removeTeacherFromModuleElement(a.teacherId, a.moduleElementId) /\ Counted

SpecGroups == Init /\ [][NextGroups]_vars

----------------------------------------------------------------------------
(* The dashboard aggregations of the routes. A query is the req.query      *)
(* object: a function from the given parameters to their values; the limit *)
(* parameter is an integer in decimal, which is a non-empty string and so  *)
(* truthy, and which parseInt(_, 10) reads back.                           *)

\* the limit of both dashboard lists when the query gives none
DefaultLimit == 5

\* req.query.limit ? parseInt(req.query.limit, 10) : 5
limitOf(query) ==
  IF "limit" \in DOMAIN query THEN query.limit ELSE DefaultLimit

\* the grouping loop of top-absentees that counts every row, whatever its
\* status
RECURSIVE absencesByStudentAnyStatus(_)
absencesByStudentAnyStatus(xs) ==
  IF xs = <<>>
  THEN <<>>
  ELSE LET counted == absencesByStudentAnyStatus(SubSeq(xs, 1, Len(xs) - 1))
           absence == xs[Len(xs)]
           count == IF MapHas(counted, absence.studentId)
                    THEN MapGet(counted, absence.studentId)
                    ELSE 0
       IN MapSet(counted, absence.studentId, count + 1)

\* the grouping loop of top-absentees over the rows xs, in order: a Map from
\* studentId to the number of rows with status "absent"
RECURSIVE absencesByStudent(_)
absencesByStudent(xs) ==
  IF xs = <<>>
  THEN <<>>
  ELSE LET counted == absencesByStudent(SubSeq(xs, 1, Len(xs) - 1))
           absence == xs[Len(xs)]
           count == IF MapHas(counted, absence.studentId)
                    THEN MapGet(counted, absence.studentId)
                    ELSE 0
       IN IF absence.status = "absent"
          THEN MapSet(counted, absence.studentId, count + 1)
          ELSE counted

\* GET /api/statistics/top-absentees
topAbsentees(query) ==
  LET limit == limitOf(query)
      byStudent == absencesByStudent(listAbsences)
      Entry(e) ==
        LET student == FindEq(listStudents, "id", e.key)
        IN [studentId |-> e.key,
            studentName |-> IF student = Undefined
                            THEN "Unknown"
                            ELSE student.firstName \o " " \o student.lastName,
            absenceCount |-> e.val]
      entries == [i \in 1..Len(byStudent) |-> Entry(byStudent[i])]
  IN Slice(SortDescending(entries, "absenceCount"), limit)

\* GET /api/statistics/recent-activities. The date of a session is its
\* time in milliseconds, what new Date(date).getTime() gives.
activities(query) ==
  LET limit == limitOf(query)
      teachers == FilterEq(listUsers, "role", "teacher")
      recentSessions == Slice(SortDescending(listSessions, "date"), limit)
      Activity(session) ==
        LET teacher == FindEq(teachers, "id", session.teacherId)
            moduleElement == FindEq(listModuleElements, "id", session.moduleElementId)
            absencesCount ==
              Len(FilterEq(listAbsencesBySession(session.id), "status", "absent"))
        IN [sessionId |-> session.id,
            date |-> session.date,
            teacherName |-> IF teacher = Undefined THEN "Unknown" ELSE teacher.fullName,
            moduleElementName |-> IF moduleElement = Undefined
                                  THEN "Unknown"
                                  ELSE moduleElement.name,
            type |-> session.type,
            absencesCount |-> absencesCount]
  IN [i \in 1..Len(recentSessions) |-> Activity(recentSessions[i])]

\* GET /api/statistics
statistics ==
  [studentsCount |-> Len(listStudents),
   departmentsCount |-> Len(listDepartments),
   coursesCount |-> Len(listCourses),
   teachersCount |-> Len(FilterEq(listUsers, "role", "teacher")),
   modulesCount |-> Len(listModules),
   absencesCount |-> Len(listAbsences)]

----------------------------------------------------------------------------
(* The filtered list routes. A query parameter arrives as a string; the     *)
(* route converts it with req.query.x ? parseInt(req.query.x, 10) :         *)
(* undefined and then tests the number with if (x).                         *)

\* the query strings of the model
QueryStrings == {"", "0", "1", "2"}

\* parseInt(s, 10) on the query strings that are numerals
parseInt(s) ==
  CASE s = "0" -> 0
    [] s = "1" -> 1
    [] s = "2" -> 2

\* both tests of a route on the parameter name: the string is given and not
\* empty, and the number parsed from it is not 0
filterGiven(query, name) ==
  /\ name \in DOMAIN query
  /\ query[name] # ""
  /\ parseInt(query[name]) # 0

\* GET /api/courses
coursesRoute(query) ==
  IF filterGiven(query, "departmentId")
  THEN listCoursesByDepartment(parseInt(query.departmentId))
  ELSE listCourses

\* GET /api/modules
modulesRoute(query) ==
  IF filterGiven(query, "courseId")
  THEN listModulesByCourse(parseInt(query.courseId))
  ELSE listModules

\* GET /api/module-elements
moduleElementsRoute(query) ==
  IF filterGiven(query, "moduleId")
  THEN listModuleElementsByModule(parseInt(query.moduleId))
  ELSE listModuleElements

\* GET /api/students
studentsRoute(query) ==
  IF filterGiven(query, "courseId")
  THEN listStudentsByCourse(parseInt(query.courseId))
  ELSE listStudents

\* GET /api/student-groups
studentGroupsRoute(query) ==
  IF filterGiven(query, "courseId")
  THEN listStudentGroupsByCourse(parseInt(query.courseId))
  ELSE listStudentGroups

\* GET /api/sessions
sessionsRoute(query) ==
  IF filterGiven(query, "teacherId")
  THEN listSessionsByTeacher(parseInt(query.teacherId))
  ELSE IF filterGiven(query, "moduleElementId")
       THEN listSessionsByModuleElement(parseInt(query.moduleElementId))
       ELSE listSessions

\* GET /api/absences
absencesRoute(query) ==
  IF filterGiven(query, "sessionId")
  THEN listAbsencesBySession(parseInt(query.sessionId))
  ELSE IF filterGiven(query, "studentId")
       THEN listAbsencesByStudent(parseInt(query.studentId))
       ELSE listAbsences

----------------------------------------------------------------------------
(* The threshold cards of the absence reports page. The page works on the  *)
(* full course, student and absence lists it has fetched.                  *)

\* getStudentAbsences: the number of fetched absences of the student with
\* status ABSENCE_STATUSES.ABSENT
getStudentAbsences(studentId) ==
  LET Test(absence) == absence.studentId = studentId /\ absence.status = "absent"
  IN Len(SelectSeq(listAbsences, Test))

\* !course.absenceThreshold: no value, or the value 0
noThreshold(course) ==
  IF "absenceThreshold" \in DOMAIN course THEN course.absenceThreshold = 0 ELSE TRUE

\* the card of one course: none when the course has no threshold, otherwise
\* the students of the course whose absences exceed the threshold
thresholdCard(course) ==
  IF noThreshold(course)
  THEN [rendered |-> FALSE]
  ELSE LET courseStudents == FilterEq(listStudents, "courseId", course.id)
           threshold == IF noThreshold(course) THEN 3 ELSE course.absenceThreshold
           Test(student) == getStudentAbsences(student.id) > threshold
       IN [rendered |-> TRUE,
           studentsExceedingThreshold |-> SelectSeq(courseStudents, Test)]

----------------------------------------------------------------------------
(* The absence reports: students, courses with their thresholds and        *)
(* absences, recorded row by row or by the roll call of a session          *)

\* the limits asked of the dashboard lists: none, or an integer
Queries ==
  {<<>>} \cup {[limit |-> n] : n \in {-1, 0, 1, 2}}

ReportStudents ==
  InsertStudents \cup
  { [studentId |-> "E002", firstName |-> "C", lastName |-> "D",
     email |-> "c@example.com", courseId |-> 1] }

\* courses created without a threshold, with the threshold 1 and with the
\* threshold 0
ReportCourses ==
  InsertCourses \cup
  { [name |-> "GI", code |-> "GI1", departmentId |-> 1, absenceThreshold |-> 1],
    [name |-> "GI", code |-> "GI1", departmentId |-> 1, absenceThreshold |-> 0] }

\* the rows a teacher records one at a time
ReportRows ==
  { [sessionId |-> 1, studentId |-> 2, status |-> "absent"],
    [sessionId |-> 1, studentId |-> 3, status |-> "absent"],
    [sessionId |-> 1, studentId |-> 1, status |-> "present"],
    [sessionId |-> 1, studentId |-> 1, status |-> "justified"],
    [sessionId |-> 1, studentId |-> 1, status |-> "unjustified"] }

\* the roll call of a session in which the first n students are all absent
RollCalls ==
  { [i \in 1..n |-> [sessionId |-> 1, studentId |-> i, status |-> "absent"]] :
      n \in {1, 3, MaxRoll} }

CanCallReports == calls < MaxReportOps

NextAbsentees ==
  \/ \E student \in ReportStudents :
        CanCallReports /\ createStudent(student) /\ Counted
  \/ \E id \in Ids("students") :
        CanCallReports /\ deleteStudent(id) /\ Counted
  \/ \E course \in ReportCourses :
        CanCallReports /\ createCourse(course) /\ Counted
  \/ \E absence \in ReportRows :
        CanCallReports /\ createAbsence(absence) /\ Counted
  \/ \E xs \in RollCalls :
        CanCallReports /\ batchCreateAbsences(xs) /\ Counted

SpecAbsentees == Init /\ [][NextAbsentees]_vars

----------------------------------------------------------------------------
(* The recent activities: sessions of two dates, given by the seeded       *)
(* teacher, by the seeded administrator or by a user that does not exist,  *)
(* with their module element and their absences                            *)

ReportSessions ==
  { [date |-> 1, type |-> "course", moduleElementId |-> 1, teacherId |-> 2],
    [date |-> 2, type |-> "TD", moduleElementId |-> 1, teacherId |-> 1],
    [date |-> 2, type |-> "TP", moduleElementId |-> 2, teacherId |-> 9] }

NextActivities ==
  \/ \E session \in ReportSessions :
        CanCallReports /\ createSession(session) /\ Counted
  \/ \E id \in Ids("sessions") :
        CanCallReports /\ deleteSession(id) /\ Counted
  \/ \E moduleElement \in InsertModuleElements :
        CanCallReports /\ createModuleElement(moduleElement) /\ Counted
  \/ \E absence \in InsertAbsences :
        CanCallReports /\ createAbsence(absence) /\ Counted
  \/ \E id \in Ids("users") :
        CanCallReports /\ deleteUser(id) /\ Counted

SpecActivities == Init /\ [][NextActivities]_vars

----------------------------------------------------------------------------
(* The read operations as calls: the get, list and filter methods of the   *)
(* repository and the three dashboard routes, between a few writes. A read *)
(* assigns to no field of the repository; what it returns is built from    *)
(* Array.from copies of the maps.                                          *)

\* a get, list or filter method, or a route made of them, returning result
Read(op, result) ==
  /\ last' = [op |-> op, ret |-> result]
  /\ UNCHANGED <<users, departments, courses, modules, moduleElements,
                 teacherModuleElements, students, studentGroups,
                 studentGroupAssignments, sessions, absences, nextIds, issued,
                 calls, outside>>

\* recent-activities sorting the sessions of the repository themselves
getRecentActivitiesSortingStore(query) ==
  LET sorted == SortDescending(listSessions, "date")
  IN /\ last' = [op |-> "recentActivities", ret |-> activities(query)]
     /\ sessions' = [i \in 1..Len(sorted) |-> [key |-> sorted[i].id, val |-> sorted[i]]]
     /\ UNCHANGED <<users, departments, courses, modules, moduleElements,
                    teacherModuleElements, students, studentGroups,
                    studentGroupAssignments, absences, nextIds, issued, calls,
                    outside>>

\* GET /api/statistics/recent-activities as a call: sessions.sort(...) sorts
\* the array that listSessions() has just made, not the map
getRecentActivities(query) ==
  /\ last' = [op |-> "recentActivities", ret |-> activities(query)]
  /\ UNCHANGED <<users, departments, courses, modules, moduleElements,
                 teacherModuleElements, students, studentGroups,
                 studentGroupAssignments, sessions, absences, nextIds, issued,
                 calls, outside>>

\* the ids and foreign keys the reads are given
ReadArgs == {1, 2}

\* the queries of the dashboard reads
ReadQueries == {<<>>, [limit |-> 1]}

CanWrite == calls < MaxWrites

NextReads ==
  \/ \E session \in ReportSessions : CanWrite /\ createSession(session) /\ Counted
  \/ \E absence \in InsertAbsences : CanWrite /\ createAbsence(absence) /\ Counted
  \/ \E id \in ReadArgs : Read("get", getUser(id))
  \/ \E id \in ReadArgs : Read("get", getDepartment(id))
  \/ \E id \in ReadArgs : Read("get", getCourse(id))
  \/ \E id \in ReadArgs : Read("get", getModule(id))
  \/ \E id \in ReadArgs : Read("get", getModuleElement(id))
  \/ \E id \in ReadArgs : Read("get", getStudent(id))
  \/ \E id \in ReadArgs : Read("get", getStudentGroup(id))
  \/ \E id \in ReadArgs : Read("get", getSession(id))
  \/ \E id \in ReadArgs : Read("get", getAbsence(id))
  \/ Read("list", listUsers)
  \/ Read("list", listDepartments)
  \/ Read("list", listCourses)
  \/ Read("list", listModules)
  \/ Read("list", listModuleElements)
  \/ Read("list", listStudents)
  \/ Read("list", listStudentGroups)
  \/ Read("list", listSessions)
  \/ Read("list", listAbsences)
  \/ \E v \in ReadArgs : Read("list", listCoursesByDepartment(v))
  \/ \E v \in ReadArgs : Read("list", listModulesByCourse(v))
  \/ \E v \in ReadArgs : Read("list", listModuleElementsByModule(v))
  \/ \E v \in ReadArgs : Read("list", listTeacherModuleElements(v))
  \/ \E v \in ReadArgs : Read("list", listStudentsByCourse(v))
  \/ \E v \in ReadArgs : Read("list", listStudentGroupsByCourse(v))
  \/ \E v \in ReadArgs : Read("list", listStudentGroupAssignments(v))
  \/ \E v \in ReadArgs : Read("list", listStudentsByGroup(v))
  \/ \E v \in ReadArgs : Read("list", listSessionsByTeacher(v))
  \/ \E v \in ReadArgs : Read("list", listSessionsByModuleElement(v))
  \/ \E v \in ReadArgs : Read("list", listAbsencesBySession(v))
  \/ \E v \in ReadArgs : Read("list", listAbsencesByStudent(v))
  \/ Read("statistics", statistics)
  \/ \E query \in ReadQueries : Read("topAbsentees", topAbsentees(query))
  \/ \E query \in ReadQueries : getRecentActivities(query)

SpecReads == Init /\ [][NextReads]_vars

----------------------------------------------------------------------------
(* The server: express-session, passport and the guards of the routes. A   *)
(* request is one action: passport.session() restores req.user from the    *)
(* session of the request's cookie, the guard of the route admits or       *)
(* rejects, and an admitted request makes its storage call and answers.    *)

\* a session that holds no login
EmptySession == [cookie |-> [secure |-> FALSE]]

\* the session after req.logIn(user): serializeUser keeps the id
LoggedIn(id) == [cookie |-> [secure |-> FALSE], passport |-> [user |-> id]]

\* MemStorage.getUserByUsername
getUserByUsernameLast(username) ==
  LET matches == FilterEq(listUsers, "username", username)
  IN IF matches = <<>> THEN Undefined ELSE matches[Len(matches)]

getUserByUsername(username) == FindEq(listUsers, "username", username)

\* deserializeUser answering with the record the constructor seeded under
\* the id, whatever the repository holds now
deserializeUserFromSeed(cookie) ==
  IF "passport" \in DOMAIN sessionStore[cookie]
  THEN IF sessionStore[cookie].passport.user \in 1..Len(SeedUsers)
       THEN WithId(SeedUsers[sessionStore[cookie].passport.user],
                   sessionStore[cookie].passport.user)
       ELSE getUser(sessionStore[cookie].passport.user)
  ELSE Undefined

\* passport.deserializeUser on the id kept in the session: the user stored
\* under it now, or undefined
deserializeUser(cookie) ==
  IF "passport" \in DOMAIN sessionStore[cookie]
  THEN getUser(sessionStore[cookie].passport.user)
  ELSE Undefined

\* the sessions after passport.session(): a login whose user is not stored
\* any more is taken out of the session
sessionAfter(cookie) ==
  IF "passport" \in DOMAIN sessionStore[cookie] /\ deserializeUser(cookie) = Undefined
  THEN [sessionStore EXCEPT ![cookie] = EmptySession]
  ELSE sessionStore

\* req.isAuthenticated(): req.user is set
isAuthenticated(cookie) == deserializeUser(cookie) # Undefined

\* isAdmin that admits every authenticated user
isAdminAnyRole(cookie) == isAuthenticated(cookie)

isAdmin(cookie) ==
  /\ isAuthenticated(cookie)
  /\ deserializeUser(cookie).role = "admin"

isDepartmentHead(cookie) ==
  /\ isAuthenticated(cookie)
  /\ deserializeUser(cookie).role \in {"departmentHead", "admin"}

isTeacher(cookie) ==
  /\ isAuthenticated(cookie)
  /\ deserializeUser(cookie).role \in {"teacher", "departmentHead", "admin"}

\* a handler that makes no writing call
repositoryKept ==
  UNCHANGED <<users, departments, courses, modules, moduleElements,
              teacherModuleElements, students, studentGroups,
              studentGroupAssignments, sessions, absences, nextIds, issued>>

\* the guard answers and next() is not called
rejected(status, message) ==
  /\ last' = [op |-> "rejected", ret |-> Undefined]
  /\ response' = [status |-> status, body |-> [message |-> message]]
  /\ repositoryKept

\* the fields of a user that the routes answer with; JSON leaves out a field
\* whose value is undefined
PublicUserKeys == {"id", "username", "fullName", "email", "role", "departmentId"}

\* the whole stored record as the answer
publicUserWhole(user) == user

publicUser(user) == [f \in (DOMAIN user) \cap PublicUserKeys |-> user[f]]

\* the handler of POST /api/auth/login: the LocalStrategy and req.logIn
auth_login(cookie, credentials) ==
  LET user == getUserByUsername(credentials.username)
  IN /\ last' = [op |-> "login", ret |-> user]
     /\ IF user = Undefined
        THEN /\ response' = [status |-> 401, body |-> [message |-> "Invalid username"]]
             /\ sessionStore' = sessionAfter(cookie)
        ELSE IF user.password # credentials.password
             THEN /\ response' = [status |-> 401, body |-> [message |-> "Invalid password"]]
                  /\ sessionStore' = sessionAfter(cookie)
             ELSE /\ response' = [status |-> 200, body |-> publicUser(user)]
                  /\ sessionStore' = [sessionStore EXCEPT ![cookie] = LoggedIn(user.id)]
     /\ repositoryKept

\* POST /api/auth/login from a client that is not the tab
POST_auth_login(cookie, credentials) ==
  auth_login(cookie, credentials) /\ UNCHANGED <<microtasks, browser>>

\* the handler of POST /api/auth/logout
auth_logout(cookie) ==
  /\ last' = [op |-> "logout", ret |-> Undefined]
  /\ sessionStore' = [sessionStore EXCEPT ![cookie] = EmptySession]
  /\ response' = [status |-> 200, body |-> [message |-> "Logged out successfully"]]
  /\ repositoryKept

\* POST /api/auth/logout from a client that is not the tab
POST_auth_logout(cookie) ==
  auth_logout(cookie) /\ UNCHANGED <<microtasks, browser>>

\* the handler of GET /api/auth/session
auth_session(cookie) ==
  /\ sessionStore' = sessionAfter(cookie)
  /\ last' = [op |-> "session", ret |-> deserializeUser(cookie)]
  /\ response' = IF ~isAuthenticated(cookie)
                 THEN [status |-> 401, body |-> [authenticated |-> FALSE]]
                 ELSE [status |-> 200,
                       body |-> [authenticated |-> TRUE,
                                 user |-> publicUser(deserializeUser(cookie))]]
  /\ repositoryKept

\* GET /api/auth/session from a client that is not the tab
GET_auth_session(cookie) ==
  auth_session(cookie) /\ UNCHANGED <<microtasks, browser>>

\* GET /api/users
GET_users(cookie) ==
  /\ sessionStore' = sessionAfter(cookie)
  /\ IF isAdmin(cookie)
     THEN /\ last' = [op |-> "listUsers", ret |-> listUsers]
          /\ response' = [status |-> 200,
                          body |-> [i \in 1..Len(listUsers) |-> publicUser(listUsers[i])]]
          /\ repositoryKept
     ELSE rejected(403, "Forbidden - Admin access required")
  /\ UNCHANGED <<microtasks, browser>>

\* GET /api/users/:id
GET_users_id(cookie, id) ==
  /\ sessionStore' = sessionAfter(cookie)
  /\ IF isAdmin(cookie)
     THEN /\ last' = [op |-> "getUser", ret |-> getUser(id)]
          /\ response' = IF getUser(id) = Undefined
                         THEN [status |-> 404, body |-> [message |-> "User not found"]]
                         ELSE [status |-> 200, body |-> publicUser(getUser(id))]
          /\ repositoryKept
     ELSE rejected(403, "Forbidden - Admin access required")
  /\ UNCHANGED <<microtasks, browser>>

\* GET /api/departments
GET_departments(cookie) ==
  /\ sessionStore' = sessionAfter(cookie)
  /\ IF isAuthenticated(cookie)
     THEN /\ last' = [op |-> "listDepartments", ret |-> listDepartments]
          /\ response' = [status |-> 200, body |-> listDepartments]
          /\ repositoryKept
     ELSE rejected(401, "Unauthorized")
  /\ UNCHANGED <<microtasks, browser>>

\* POST /api/users
POST_users(cookie, body) ==
  /\ sessionStore' = sessionAfter(cookie)
  /\ IF isAdmin(cookie)
     THEN /\ createUser(body)
          /\ response' = [status |-> 201, body |-> publicUser(last'.ret)]
     ELSE rejected(403, "Forbidden - Admin access required")
  /\ UNCHANGED <<microtasks, browser>>

\* PUT /api/users/:id
PUT_users(cookie, id, body) ==
  /\ sessionStore' = sessionAfter(cookie)
  /\ IF isAdmin(cookie)
     THEN /\ updateUser(id, body)
          /\ response' = IF last'.ret = Undefined
                         THEN [status |-> 404, body |-> [message |-> "User not found"]]
                         ELSE [status |-> 200, body |-> publicUser(last'.ret)]
     ELSE rejected(403, "Forbidden - Admin access required")
  /\ UNCHANGED <<microtasks, browser>>

\* DELETE /api/users/:id
DELETE_users(cookie, id) ==
  /\ sessionStore' = sessionAfter(cookie)
  /\ IF isAdmin(cookie)
     THEN /\ deleteUser(id)
          /\ response' = IF last'.ret
                         THEN [status |-> 200, body |-> [message |-> "User deleted successfully"]]
                         ELSE [status |-> 404, body |-> [message |-> "User not found"]]
     ELSE rejected(403, "Forbidden - Admin access required")
  /\ UNCHANGED <<microtasks, browser>>

\* POST /api/departments
POST_departments(cookie, body) ==
  /\ sessionStore' = sessionAfter(cookie)
  /\ IF isAdmin(cookie)
     THEN /\ createDepartment(body)
          /\ response' = [status |-> 201, body |-> last'.ret]
     ELSE rejected(403, "Forbidden - Admin access required")
  /\ UNCHANGED <<microtasks, browser>>

\* PUT /api/departments/:id
PUT_departments(cookie, id, body) ==
  /\ sessionStore' = sessionAfter(cookie)
  /\ IF isAdmin(cookie)
     THEN /\ updateDepartment(id, body)
          /\ response' = IF last'.ret = Undefined
                         THEN [status |-> 404, body |-> [message |-> "Department not found"]]
                         ELSE [status |-> 200, body |-> last'.ret]
     ELSE rejected(403, "Forbidden - Admin access required")
  /\ UNCHANGED <<microtasks, browser>>

\* DELETE /api/departments/:id
DELETE_departments(cookie, id) ==
  /\ sessionStore' = sessionAfter(cookie)
  /\ IF isAdmin(cookie)
     THEN /\ deleteDepartment(id)
          /\ response' = IF last'.ret
                         THEN [status |-> 200, body |-> [message |-> "Department deleted successfully"]]
                         ELSE [status |-> 404, body |-> [message |-> "Department not found"]]
     ELSE rejected(403, "Forbidden - Admin access required")
  /\ UNCHANGED <<microtasks, browser>>

\* POST /api/courses
POST_courses(cookie, body) ==
  /\ sessionStore' = sessionAfter(cookie)
  /\ IF isAdmin(cookie)
     THEN /\ createCourse(body)
          /\ response' = [status |-> 201, body |-> last'.ret]
     ELSE rejected(403, "Forbidden - Admin access required")
  /\ UNCHANGED <<microtasks, browser>>

\* PUT /api/courses/:id
PUT_courses(cookie, id, body) ==
  /\ sessionStore' = sessionAfter(cookie)
  /\ IF isAdmin(cookie)
     THEN /\ updateCourse(id, body)
          /\ response' = IF last'.ret = Undefined
                         THEN [status |-> 404, body |-> [message |-> "Course not found"]]
                         ELSE [status |-> 200, body |-> last'.ret]
     ELSE rejected(403, "Forbidden - Admin access required")
  /\ UNCHANGED <<microtasks, browser>>

\* DELETE /api/courses/:id
DELETE_courses(cookie, id) ==
  /\ sessionStore' = sessionAfter(cookie)
  /\ IF isAdmin(cookie)
     THEN /\ deleteCourse(id)
          /\ response' = IF last'.ret
                         THEN [status |-> 200, body |-> [message |-> "Course deleted successfully"]]
                         ELSE [status |-> 404, body |-> [message |-> "Course not found"]]
     ELSE rejected(403, "Forbidden - Admin access required")
  /\ UNCHANGED <<microtasks, browser>>

\* POST /api/modules
POST_modules(cookie, body) ==
  /\ sessionStore' = sessionAfter(cookie)
  /\ IF isAdmin(cookie)
     THEN /\ createModule(body)
          /\ response' = [status |-> 201, body |-> last'.ret]
     ELSE rejected(403, "Forbidden - Admin access required")
  /\ UNCHANGED <<microtasks, browser>>

\* PUT /api/modules/:id
PUT_modules(cookie, id, body) ==
  /\ sessionStore' = sessionAfter(cookie)
  /\ IF isAdmin(cookie)
     THEN /\ updateModule(id, body)
          /\ response' = IF last'.ret = Undefined
                         THEN [status |-> 404, body |-> [message |-> "Module not found"]]
                         ELSE [status |-> 200, body |-> last'.ret]
     ELSE rejected(403, "Forbidden - Admin access required")
  /\ UNCHANGED <<microtasks, browser>>

\* DELETE /api/modules/:id
DELETE_modules(cookie, id) ==
  /\ sessionStore' = sessionAfter(cookie)
  /\ IF isAdmin(cookie)
     THEN /\ deleteModule(id)
          /\ response' = IF last'.ret
                         THEN [status |-> 200, body |-> [message |-> "Module deleted successfully"]]
                         ELSE [status |-> 404, body |-> [message |-> "Module not found"]]
     ELSE rejected(403, "Forbidden - Admin access required")
  /\ UNCHANGED <<microtasks, browser>>

\* POST /api/module-elements
POST_module_elements(cookie, body) ==
  /\ sessionStore' = sessionAfter(cookie)
  /\ IF isAdmin(cookie)
     THEN /\ createModuleElement(body)
          /\ response' = [status |-> 201, body |-> last'.ret]
     ELSE rejected(403, "Forbidden - Admin access required")
  /\ UNCHANGED <<microtasks, browser>>

\* PUT /api/module-elements/:id
PUT_module_elements(cookie, id, body) ==
  /\ sessionStore' = sessionAfter(cookie)
  /\ IF isAdmin(cookie)
     THEN /\ updateModuleElement(id, body)
          /\ response' = IF last'.ret = Undefined
                         THEN [status |-> 404, body |-> [message |-> "ModuleElement not found"]]
                         ELSE [status |-> 200, body |-> last'.ret]
     ELSE rejected(403, "Forbidden - Admin access required")
  /\ UNCHANGED <<microtasks, browser>>

\* DELETE /api/module-elements/:id
DELETE_module_elements(cookie, id) ==
  /\ sessionStore' = sessionAfter(cookie)
  /\ IF isAdmin(cookie)
     THEN /\ deleteModuleElement(id)
          /\ response' = IF last'.ret
                         THEN [status |-> 200, body |-> [message |-> "ModuleElement deleted successfully"]]
                         ELSE [status |-> 404, body |-> [message |-> "ModuleElement not found"]]
     ELSE rejected(403, "Forbidden - Admin access required")
  /\ UNCHANGED <<microtasks, browser>>

\* POST /api/teacher-module-elements
POST_teacher_module_elements(cookie, body) ==
  /\ sessionStore' = sessionAfter(cookie)
  /\ IF isAdmin(cookie)
     THEN /\ assignTeacherToModuleElement(body)
          /\ response' = [status |-> 201, body |-> last'.ret]
     ELSE rejected(403, "Forbidden - Admin access required")
  /\ UNCHANGED <<microtasks, browser>>

\* DELETE /api/teacher-module-elements?teacherId=&moduleElementId=
DELETE_teacher_module_elements(cookie, query) ==
  /\ sessionStore' = sessionAfter(cookie)
  /\ IF isAdmin(cookie)
     THEN /\ removeTeacherFromModuleElement(query.teacherId, query.moduleElementId)
          /\ response' = IF last'.ret
                         THEN [status |-> 200, body |-> [message |-> "Assignment removed successfully"]]
                         ELSE [status |-> 404, body |-> [message |-> "Assignment not found"]]
     ELSE rejected(403, "Forbidden - Admin access required")
  /\ UNCHANGED <<microtasks, browser>>

\* POST /api/students
POST_students(cookie, body) ==
  /\ sessionStore' = sessionAfter(cookie)
  /\ IF isAdmin(cookie)
     THEN /\ createStudent(body)
          /\ response' = [status |-> 201, body |-> last'.ret]
     ELSE rejected(403, "Forbidden - Admin access required")
  /\ UNCHANGED <<microtasks, browser>>

\* PUT /api/students/:id
PUT_students(cookie, id, body) ==
  /\ sessionStore' = sessionAfter(cookie)
  /\ IF isAdmin(cookie)
     THEN /\ updateStudent(id, body)
          /\ response' = IF last'.ret = Undefined
                         THEN [status |-> 404, body |-> [message |-> "Student not found"]]
                         ELSE [status |-> 200, body |-> last'.ret]
     ELSE rejected(403, "Forbidden - Admin access required")
  /\ UNCHANGED <<microtasks, browser>>

\* DELETE /api/students/:id
DELETE_students(cookie, id) ==
  /\ sessionStore' = sessionAfter(cookie)
  /\ IF isAdmin(cookie)
     THEN /\ deleteStudent(id)
          /\ response' = IF last'.ret
                         THEN [status |-> 200, body |-> [message |-> "Student deleted successfully"]]
                         ELSE [status |-> 404, body |-> [message |-> "Student not found"]]
     ELSE rejected(403, "Forbidden - Admin access required")
  /\ UNCHANGED <<microtasks, browser>>

\* POST /api/student-groups
POST_student_groups(cookie, body) ==
  /\ sessionStore' = sessionAfter(cookie)
  /\ IF isDepartmentHead(cookie)
     THEN /\ createStudentGroup(body)
          /\ response' = [status |-> 201, body |-> last'.ret]
     ELSE rejected(403, "Forbidden - Department Head access required")
  /\ UNCHANGED <<microtasks, browser>>

\* PUT /api/student-groups/:id
PUT_student_groups(cookie, id, body) ==
  /\ sessionStore' = sessionAfter(cookie)
  /\ IF isDepartmentHead(cookie)
     THEN /\ updateStudentGroup(id, body)
          /\ response' = IF last'.ret = Undefined
                         THEN [status |-> 404, body |-> [message |-> "StudentGroup not found"]]
                         ELSE [status |-> 200, body |-> last'.ret]
     ELSE rejected(403, "Forbidden - Department Head access required")
  /\ UNCHANGED <<microtasks, browser>>

\* DELETE /api/student-groups/:id
DELETE_student_groups(cookie, id) ==
  /\ sessionStore' = sessionAfter(cookie)
  /\ IF isDepartmentHead(cookie)
     THEN /\ deleteStudentGroup(id)
          /\ response' = IF last'.ret
                         THEN [status |-> 200, body |-> [message |-> "StudentGroup deleted successfully"]]
                         ELSE [status |-> 404, body |-> [message |-> "StudentGroup not found"]]
     ELSE rejected(403, "Forbidden - Department Head access required")
  /\ UNCHANGED <<microtasks, browser>>

\* POST /api/student-group-assignments
POST_student_group_assignments(cookie, body) ==
  /\ sessionStore' = sessionAfter(cookie)
  /\ IF isDepartmentHead(cookie)
     THEN /\ assignStudentToGroup(body)
          /\ response' = [status |-> 201, body |-> last'.ret]
     ELSE rejected(403, "Forbidden - Department Head access required")
  /\ UNCHANGED <<microtasks, browser>>

\* DELETE /api/student-group-assignments?studentId=&groupId=
DELETE_student_group_assignments(cookie, query) ==
  /\ sessionStore' = sessionAfter(cookie)
  /\ IF isDepartmentHead(cookie)
     THEN /\ removeStudentFromGroup(query.studentId, query.groupId)
          /\ response' = IF last'.ret
                         THEN [status |-> 200, body |-> [message |-> "Assignment removed successfully"]]
                         ELSE [status |-> 404, body |-> [message |-> "Assignment not found"]]
     ELSE rejected(403, "Forbidden - Department Head access required")
  /\ UNCHANGED <<microtasks, browser>>

\* POST /api/sessions
POST_sessions(cookie, body) ==
  /\ sessionStore' = sessionAfter(cookie)
  /\ IF isTeacher(cookie)
     THEN /\ createSession(body)
          /\ response' = [status |-> 201, body |-> last'.ret]
     ELSE rejected(403, "Forbidden - Teacher access required")
  /\ UNCHANGED <<microtasks, browser>>

\* PUT /api/sessions/:id
PUT_sessions(cookie, id, body) ==
  /\ sessionStore' = sessionAfter(cookie)
  /\ IF isTeacher(cookie)
     THEN /\ updateSession(id, body)
          /\ response' = IF last'.ret = Undefined
                         THEN [status |-> 404, body |-> [message |-> "Session not found"]]
                         ELSE [status |-> 200, body |-> last'.ret]
     ELSE rejected(403, "Forbidden - Teacher access required")
  /\ UNCHANGED <<microtasks, browser>>

\* DELETE /api/sessions/:id
DELETE_sessions(cookie, id) ==
  /\ sessionStore' = sessionAfter(cookie)
  /\ IF isTeacher(cookie)
     THEN /\ deleteSession(id)
          /\ response' = IF last'.ret
                         THEN [status |-> 200, body |-> [message |-> "Session deleted successfully"]]
                         ELSE [status |-> 404, body |-> [message |-> "Session not found"]]
     ELSE rejected(403, "Forbidden - Teacher access required")
  /\ UNCHANGED <<microtasks, browser>>

\* POST /api/absences
POST_absences(cookie, body) ==
  /\ sessionStore' = sessionAfter(cookie)
  /\ IF isTeacher(cookie)
     THEN /\ createAbsence(body)
          /\ response' = [status |-> 201, body |-> last'.ret]
     ELSE rejected(403, "Forbidden - Teacher access required")
  /\ UNCHANGED <<microtasks, browser>>

\* PUT /api/absences/:id
PUT_absences(cookie, id, body) ==
  /\ sessionStore' = sessionAfter(cookie)
  /\ IF isTeacher(cookie)
     THEN /\ updateAbsence(id, body)
          /\ response' = IF last'.ret = Undefined
                         THEN [status |-> 404, body |-> [message |-> "Absence not found"]]
                         ELSE [status |-> 200, body |-> last'.ret]
     ELSE rejected(403, "Forbidden - Teacher access required")
  /\ UNCHANGED <<microtasks, browser>>

\* DELETE /api/absences/:id
DELETE_absences(cookie, id) ==
  /\ sessionStore' = sessionAfter(cookie)
  /\ IF isTeacher(cookie)
     THEN /\ deleteAbsence(id)
          /\ response' = IF last'.ret
                         THEN [status |-> 200, body |-> [message |-> "Absence deleted successfully"]]
                         ELSE [status |-> 404, body |-> [message |-> "Absence not found"]]
     ELSE rejected(403, "Forbidden - Teacher access required")
  /\ UNCHANGED <<microtasks, browser>>

\* POST /api/absences/batch
POST_absences_batch(cookie, body) ==
  /\ sessionStore' = sessionAfter(cookie)
  /\ IF isTeacher(cookie)
     THEN /\ batchCreateAbsences(body)
          /\ response' = [status |-> 201, body |-> last'.ret]
     ELSE rejected(403, "Forbidden - Teacher access required")
  /\ UNCHANGED <<microtasks, browser>>

----------------------------------------------------------------------------
(* Every writing route under one browser that logs in as one of the seeded *)
(* users or not at all.                                                     *)

\* the username and password of each seeded user
SeedCredentials ==
  { [username |-> SeedUsers[i].username, password |-> SeedUsers[i].password] :
      i \in 1..Len(SeedUsers) }

AccessCookies == {"c1"}

AccessIds == {1}

AccessBatches == { <<AbsentRow>> }

CanRequest == calls < MaxAccessOps

Requested == calls' = calls + 1

NextAccess ==
  \/ \E cookie \in AccessCookies, credentials \in SeedCredentials :
        CanRequest /\ POST_auth_login(cookie, credentials) /\ Requested
  \/ \E cookie \in AccessCookies, body \in InsertUsers : CanRequest /\ POST_users(cookie, body) /\ Requested
  \/ \E cookie \in AccessCookies, id \in AccessIds, body \in PartialUsers : CanRequest /\ PUT_users(cookie, id, body) /\ Requested
  \/ \E cookie \in AccessCookies, id \in AccessIds : CanRequest /\ DELETE_users(cookie, id) /\ Requested
  \/ \E cookie \in AccessCookies, body \in InsertDepartments : CanRequest /\ POST_departments(cookie, body) /\ Requested
  \/ \E cookie \in AccessCookies, id \in AccessIds, body \in PartialDepartments : CanRequest /\ PUT_departments(cookie, id, body) /\ Requested
  \/ \E cookie \in AccessCookies, id \in AccessIds : CanRequest /\ DELETE_departments(cookie, id) /\ Requested
  \/ \E cookie \in AccessCookies, body \in InsertCourses : CanRequest /\ POST_courses(cookie, body) /\ Requested
  \/ \E cookie \in AccessCookies, id \in AccessIds, body \in PartialCourses : CanRequest /\ PUT_courses(cookie, id, body) /\ Requested
  \/ \E cookie \in AccessCookies, id \in AccessIds : CanRequest /\ DELETE_courses(cookie, id) /\ Requested
  \/ \E cookie \in AccessCookies, body \in InsertModules : CanRequest /\ POST_modules(cookie, body) /\ Requested
  \/ \E cookie \in AccessCookies, id \in AccessIds, body \in PartialModules : CanRequest /\ PUT_modules(cookie, id, body) /\ Requested
  \/ \E cookie \in AccessCookies, id \in AccessIds : CanRequest /\ DELETE_modules(cookie, id) /\ Requested
  \/ \E cookie \in AccessCookies, body \in InsertModuleElements : CanRequest /\ POST_module_elements(cookie, body) /\ Requested
  \/ \E cookie \in AccessCookies, id \in AccessIds, body \in PartialModuleElements : CanRequest /\ PUT_module_elements(cookie, id, body) /\ Requested
  \/ \E cookie \in AccessCookies, id \in AccessIds : CanRequest /\ DELETE_module_elements(cookie, id) /\ Requested
  \/ \E cookie \in AccessCookies, body \in InsertTeacherModuleElements : CanRequest /\ POST_teacher_module_elements(cookie, body) /\ Requested
  \/ \E cookie \in AccessCookies, query \in InsertTeacherModuleElements : CanRequest /\ DELETE_teacher_module_elements(cookie, query) /\ Requested
  \/ \E cookie \in AccessCookies, body \in InsertStudents : CanRequest /\ POST_students(cookie, body) /\ Requested
  \/ \E cookie \in AccessCookies, id \in AccessIds, body \in PartialStudents : CanRequest /\ PUT_students(cookie, id, body) /\ Requested
  \/ \E cookie \in AccessCookies, id \in AccessIds : CanRequest /\ DELETE_students(cookie, id) /\ Requested
  \/ \E cookie \in AccessCookies, body \in InsertStudentGroups : CanRequest /\ POST_student_groups(cookie, body) /\ Requested
  \/ \E cookie \in AccessCookies, id \in AccessIds, body \in PartialStudentGroups : CanRequest /\ PUT_student_groups(cookie, id, body) /\ Requested
  \/ \E cookie \in AccessCookies, id \in AccessIds : CanRequest /\ DELETE_student_groups(cookie, id) /\ Requested
  \/ \E cookie \in AccessCookies, body \in InsertStudentGroupAssignments : CanRequest /\ POST_student_group_assignments(cookie, body) /\ Requested
  \/ \E cookie \in AccessCookies, query \in InsertStudentGroupAssignments : CanRequest /\ DELETE_student_group_assignments(cookie, query) /\ Requested
  \/ \E cookie \in AccessCookies, body \in InsertSessions : CanRequest /\ POST_sessions(cookie, body) /\ Requested
  \/ \E cookie \in AccessCookies, id \in AccessIds, body \in PartialSessions : CanRequest /\ PUT_sessions(cookie, id, body) /\ Requested
  \/ \E cookie \in AccessCookies, id \in AccessIds : CanRequest /\ DELETE_sessions(cookie, id) /\ Requested
  \/ \E cookie \in AccessCookies, body \in InsertAbsences : CanRequest /\ POST_absences(cookie, body) /\ Requested
  \/ \E cookie \in AccessCookies, id \in AccessIds, body \in PartialAbsences : CanRequest /\ PUT_absences(cookie, id, body) /\ Requested
  \/ \E cookie \in AccessCookies, id \in AccessIds : CanRequest /\ DELETE_absences(cookie, id) /\ Requested
  \/ \E cookie \in AccessCookies, body \in AccessBatches : CanRequest /\ POST_absences_batch(cookie, body) /\ Requested

SpecAccess == Init /\ [][NextAccess]_vars

----------------------------------------------------------------------------
(* The user and authentication routes under two browsers: logins with      *)
(* right and wrong passwords, a second user named like the administrator,  *)
(* changes of role and deletions of the users that are logged in.          *)

\* a user created with the username of the seeded administrator
DuplicateUsers ==
  { [username |-> "admin", password |-> "pw", fullName |-> "Second Admin",
     email |-> "admin2@example.com", role |-> "teacher"] }

\* the logins tried: each seeded user's own, the administrator's name with
\* the password of the duplicate, and a name nobody has
UserCredentials ==
  SeedCredentials \cup
  { [username |-> "admin", password |-> "pw"],
    [username |-> "nobody", password |-> "pw"] }

\* the bodies of PUT /api/users/:id that change the role
RoleChanges == { [role |-> "teacher"], [role |-> "admin"] }

\* the users that are changed, deleted and looked up
UserIds == {1, 2}

CanRequestUsers == calls < MaxUserOps

NextUsers ==
  \/ \E cookie \in Cookies, credentials \in UserCredentials :
        CanRequestUsers /\ POST_auth_login(cookie, credentials) /\ Requested
  \/ \E cookie \in Cookies :
        CanRequestUsers /\ POST_auth_logout(cookie) /\ Requested
  \/ \E cookie \in Cookies :
        CanRequestUsers /\ GET_auth_session(cookie) /\ Requested
  \/ \E cookie \in Cookies :
        CanRequestUsers /\ GET_users(cookie) /\ Requested
  \/ \E cookie \in Cookies, id \in UserIds :
        CanRequestUsers /\ GET_users_id(cookie, id) /\ Requested
  \/ \E cookie \in Cookies, body \in DuplicateUsers :
        CanRequestUsers /\ POST_users(cookie, body) /\ Requested
  \/ \E cookie \in Cookies, id \in UserIds, body \in RoleChanges :
        CanRequestUsers /\ PUT_users(cookie, id, body) /\ Requested
  \/ \E cookie \in Cookies, id \in UserIds :
        CanRequestUsers /\ DELETE_users(cookie, id) /\ Requested
  \/ \E cookie \in Cookies :
        CanRequestUsers /\ GET_departments(cookie) /\ Requested
  \/ \E cookie \in Cookies, body \in InsertDepartments :
        CanRequestUsers /\ POST_departments(cookie, body) /\ Requested
  \/ \E cookie \in Cookies, body \in InsertStudentGroups :
        CanRequestUsers /\ POST_student_groups(cookie, body) /\ Requested
  \/ \E cookie \in Cookies, body \in InsertSessions :
        CanRequestUsers /\ POST_sessions(cookie, body) /\ Requested

SpecUsers == Init /\ [][NextUsers]_vars

----------------------------------------------------------------------------
(* The absence handlers on the event loop. A handler starts in a task of   *)
(* its own (the callback that delivers the request) and runs until its     *)
(* first await; what follows an await is a continuation in the microtask   *)
(* queue. Every storage method is an async function without I/O: its       *)
(* promise is resolved when it returns, so an await on it continues in a   *)
(* microtask, and the queue is emptied before the next task starts.        *)
(* createAbsence has no await: its three statements are one step.          *)
(* batchCreateAbsences awaits createAbsence once per item.                 *)

\* the event loop takes the next task only when the microtask queue is
\* empty, whatever the queue holds
loopIdleAlways == TRUE

\* the event loop takes the next task only when the microtask queue is empty
loopIdle == microtasks = <<>>

\* the queue without its k-th continuation
RemoveAt(q, k) == SubSeq(q, 1, k - 1) \o SubSeq(q, k + 1, Len(q))

\* the continuation of a route handler after await storage.method(...):
\* res.status(status).json(body)
Respond(status, body) == [handler |-> "respond", status |-> status, body |-> body]

\* the continuation of batchCreateAbsences after await this.createAbsence:
\* the list so far, the record awaited, the items still to come
BatchLoop(createdAbsences, createdAbsence, rest) ==
  [handler |-> "batch", createdAbsences |-> createdAbsences,
   createdAbsence |-> createdAbsence, rest |-> rest]

\* POST /api/absences up to its await
startCreateAbsence(absence) ==
  /\ createAbsence(absence)
  /\ microtasks' = Append(microtasks, Respond(201, last'.ret))
  /\ UNCHANGED <<sessionStore, response, browser>>

\* PUT /api/absences/:id up to its await
startUpdateAbsence(id, absence) ==
  /\ updateAbsence(id, absence)
  /\ microtasks' = Append(microtasks,
                          IF last'.ret = Undefined
                          THEN Respond(404, [message |-> "Absence not found"])
                          ELSE Respond(200, last'.ret))
  /\ UNCHANGED <<sessionStore, response, browser>>

\* DELETE /api/absences/:id up to its await
startDeleteAbsence(id) ==
  /\ deleteAbsence(id)
  /\ microtasks' = Append(microtasks,
                          IF last'.ret
                          THEN Respond(200, [message |-> "Absence deleted successfully"])
                          ELSE Respond(404, [message |-> "Absence not found"]))
  /\ UNCHANGED <<sessionStore, response, browser>>

\* POST /api/absences/batch up to its first await: the one in the loop of
\* batchCreateAbsences after the first createAbsence, or the handler's own
\* when the array is empty
startBatchCreateAbsences(xs) ==
  /\ IF xs = <<>>
     THEN /\ last' = [op |-> "batchCreate", ret |-> <<>>]
          /\ microtasks' = Append(microtasks, Respond(201, <<>>))
          /\ repositoryKept
     ELSE /\ createAbsence(Head(xs))
          /\ microtasks' = Append(microtasks, BatchLoop(<<>>, last'.ret, Tail(xs)))
  /\ UNCHANGED <<sessionStore, response, browser>>

\* the loop of batchCreateAbsences taking the id of each item from the id of
\* the item before it and writing the counter back
resumeFromOwnIds(k) ==
  LET c == microtasks[k]
  IN IF c.handler = "respond"
     THEN /\ response' = [status |-> c.status, body |-> c.body]
          /\ microtasks' = RemoveAt(microtasks, k)
          /\ repositoryKept
          /\ UNCHANGED <<last, sessionStore, browser>>
     ELSE LET createdAbsences == Append(c.createdAbsences, c.createdAbsence)
              id == c.createdAbsence.id + 1
          IN /\ IF c.rest = <<>>
                THEN /\ last' = [op |-> "batchCreate", ret |-> createdAbsences]
                     /\ microtasks' = Append(RemoveAt(microtasks, k),
                                             Respond(201, createdAbsences))
                     /\ repositoryKept
                ELSE /\ nextIds' = [nextIds EXCEPT !.absences = id + 1]
                     /\ absences' = MapSet(absences, id, WithId(Head(c.rest), id))
                     /\ last' = [op |-> "create", ret |-> WithId(Head(c.rest), id)]
                     /\ issued' = [issued EXCEPT !.absences = Append(@, id)]
                     /\ UNCHANGED exceptAbsences
                     /\ microtasks' = Append(RemoveAt(microtasks, k),
                                             BatchLoop(createdAbsences, last'.ret,
                                                       Tail(c.rest)))
             /\ UNCHANGED <<response, sessionStore, browser>>

\* the k-th continuation runs: a handler answers, or the loop of
\* batchCreateAbsences pushes the awaited record and goes on to the next
\* item, or returns the list when there is none
resume(k) ==
  LET c == microtasks[k]
  IN IF c.handler = "respond"
     THEN /\ response' = [status |-> c.status, body |-> c.body]
          /\ microtasks' = RemoveAt(microtasks, k)
          /\ repositoryKept
          /\ UNCHANGED <<last, sessionStore, browser>>
     ELSE LET createdAbsences == Append(c.createdAbsences, c.createdAbsence)
          IN /\ IF c.rest = <<>>
                THEN /\ last' = [op |-> "batchCreate", ret |-> createdAbsences]
                     /\ microtasks' = Append(RemoveAt(microtasks, k),
                                             Respond(201, createdAbsences))
                     /\ repositoryKept
                ELSE /\ createAbsence(Head(c.rest))
                     /\ microtasks' = Append(RemoveAt(microtasks, k),
                                             BatchLoop(createdAbsences, last'.ret,
                                                       Tail(c.rest)))
             /\ UNCHANGED <<response, sessionStore, browser>>

\* the arrays of the concurrent batches: all absent, or all present
LoopBatches ==
  { [i \in 1..n |-> row] : n \in 0..MaxBatch, row \in {AbsentRow, PresentRow} }

CanStart == calls < MaxRequests

\* the handlers as Node runs them: a task when the queue is empty, else the
\* continuation at the head of the queue
NextLoop ==
  \/ \E absence \in InsertAbsences :
        CanStart /\ loopIdle /\ startCreateAbsence(absence) /\ Requested
  \/ \E id \in Ids("absences"), absence \in PartialAbsences :
        CanStart /\ loopIdle /\ startUpdateAbsence(id, absence) /\ Requested
  \/ \E id \in Ids("absences") :
        CanStart /\ loopIdle /\ startDeleteAbsence(id) /\ Requested
  \/ \E xs \in LoopBatches :
        CanStart /\ loopIdle /\ startBatchCreateAbsences(xs) /\ Requested
  \/ microtasks # <<>> /\ resume(1) /\ UNCHANGED calls

SpecLoop == Init /\ [][NextLoop]_vars

\* the same handlers under a scheduler that is free at every await: a new
\* handler may start and any suspended one may continue. Every run of the
\* event loop is one of its runs.
CanStartInterleaved == calls < MaxConcurrent

NextInterleaved ==
  \/ \E absence \in InsertAbsences :
        CanStartInterleaved /\ startCreateAbsence(absence) /\ Requested
  \/ \E xs \in LoopBatches :
        CanStartInterleaved /\ startBatchCreateAbsences(xs) /\ Requested
  \/ \E k \in 1..Len(microtasks) : resume(k) /\ UNCHANGED calls

SpecInterleaved == Init /\ [][NextInterleaved]_vars

----------------------------------------------------------------------------
(* The client: AuthProvider, ProtectedRoute and the Router, in the one tab *)
(* of the browser that holds the cookie c1. A render is a function of the  *)
(* tab's state; an effect runs after the render that made it due and       *)
(* before the next event is handled. The cached user holds strings and     *)
(* numbers only, so JSON.parse gives back what JSON.stringify was given.   *)

TabCookie == "c1"

\* the props of the element each path is routed to; /login is the LoginForm
\* outside any ProtectedRoute
Router ==
  [ login |-> [protected |-> FALSE],
    dashboard |-> [protected |-> TRUE],
    departments |-> [protected |-> TRUE, requiredRoles |-> {"admin"}],
    studentGroups |-> [protected |-> TRUE,
                       requiredRoles |-> {"admin", "departmentHead"}],
    recordAbsences |-> [protected |-> TRUE,
                        requiredRoles |-> {"admin", "departmentHead", "teacher"}] ]

Paths == DOMAIN Router

\* a ProtectedRoute is mounted
mounted == browser.page \in Paths /\ Router[browser.page].protected

\* the context value: isLoading || loginMutation.isPending
isLoading == browser.queryLoading \/ browser.loginPending

\* what ProtectedRoute returns
ProtectedRoute(props) ==
  IF isLoading
  THEN IF browser.previouslyAuthenticated THEN "children" ELSE "loading"
  ELSE IF browser.user = Null
       THEN "LoginForm"
       ELSE IF /\ "requiredRoles" \in DOMAIN props
               /\ browser.user.role \notin props.requiredRoles
            THEN "denied"
            ELSE "children"

\* what the tab shows
screen ==
  IF browser.page \notin Paths THEN "blank"
  ELSE IF ~Router[browser.page].protected THEN "LoginForm"
  ELSE ProtectedRoute(Router[browser.page])

effectsDue == browser.sessionEffectDue \/ browser.routeEffectDue

serverKept == repositoryKept /\ UNCHANGED <<last, sessionStore, response, microtasks>>

\* the page is loaded at a path: AuthProvider mounts with the cached user
\* and the session query starts; ProtectedRoute, if the path has one, mounts
\* with previouslyAuthenticated taken from the cache
open(path) ==
  /\ browser' = [page |-> path,
                 user |-> browser.localStorage,
                 localStorage |-> browser.localStorage,
                 sessionData |-> Undefined,
                 queryLoading |-> TRUE,
                 loginPending |-> FALSE,
                 loginVariables |-> Undefined,
                 previouslyAuthenticated |->
                   Router[path].protected /\ browser.localStorage # Null,
                 authInitialized |-> FALSE,
                 sessionEffectDue |-> TRUE,
                 routeEffectDue |-> Router[path].protected]
  /\ serverKept

\* the effects that are due run: ProtectedRoute's, then AuthProvider's
runEffects ==
  LET flagged == /\ browser.routeEffectDue
                 /\ browser.user # Null
                 /\ ~isLoading
      data == browser.sessionData
      given == browser.sessionEffectDue /\ data # Undefined
      user == IF given /\ data.authenticated /\ "user" \in DOMAIN data
              THEN data.user
              ELSE IF given /\ ~data.authenticated THEN Null ELSE browser.user
      cache == IF given /\ data.authenticated /\ "user" \in DOMAIN data
               THEN data.user
               ELSE IF given /\ ~data.authenticated THEN Null
                    ELSE browser.localStorage
  IN /\ effectsDue
     /\ browser' = [browser EXCEPT
                      !.previouslyAuthenticated = @ \/ flagged,
                      !.user = user,
                      !.localStorage = cache,
                      !.authInitialized =
                        @ \/ (browser.sessionEffectDue /\ ~browser.queryLoading),
                      !.sessionEffectDue = FALSE,
                      !.routeEffectDue = mounted /\ user # browser.user]
     /\ serverKept

\* the session query settles. On the 401 of a visitor without a login the
\* default query function of lib/queryClient gives the parsed body or no
\* data
sessionSettled ==
  /\ browser.queryLoading
  /\ ~effectsDue
  /\ auth_session(TabCookie)
  /\ \E data \in IF response'.status = 200
                 THEN {response'.body}
                 ELSE {response'.body, Undefined} :
       browser' = [browser EXCEPT !.sessionData = data,
                                  !.queryLoading = FALSE,
                                  !.sessionEffectDue = TRUE,
                                  !.routeEffectDue = mounted]
  /\ UNCHANGED microtasks

\* the LoginForm on the screen is submitted: the mutation is pending
loginSubmit(credentials) ==
  /\ screen = "LoginForm"
  /\ ~browser.loginPending
  /\ ~effectsDue
  /\ browser' = [browser EXCEPT !.loginPending = TRUE,
                                !.loginVariables = credentials,
                                !.routeEffectDue = mounted]
  /\ serverKept

\* the login mutation settles: onSuccess caches the user and navigates to /,
\* onError shows a toast. A ProtectedRoute that was on the screen may keep
\* its state across the navigation or be mounted anew from the cache.
loginSettled ==
  /\ browser.loginPending
  /\ ~effectsDue
  /\ auth_login(TabCookie, browser.loginVariables)
  /\ IF response'.status = 200
     THEN \E kept \in {browser.previouslyAuthenticated, TRUE} :
            browser' = [browser EXCEPT !.user = response'.body,
                                       !.localStorage = response'.body,
                                       !.page = "dashboard",
                                       !.loginPending = FALSE,
                                       !.loginVariables = Undefined,
                                       !.previouslyAuthenticated =
                                         IF mounted THEN kept ELSE TRUE,
                                       !.routeEffectDue = TRUE]
     ELSE browser' = [browser EXCEPT !.loginPending = FALSE,
                                     !.loginVariables = Undefined,
                                     !.routeEffectDue = mounted]
  /\ UNCHANGED microtasks

\* the Header's logout button: the mutation settles, onSuccess clears the
\* cache and navigates to /login, where no ProtectedRoute is mounted
logout ==
  /\ mounted
  /\ screen = "children"
  /\ ~effectsDue
  /\ auth_logout(TabCookie)
  /\ browser' = [browser EXCEPT !.user = Null,
                                !.localStorage = Null,
                                !.page = "login",
                                !.previouslyAuthenticated = FALSE,
                                !.routeEffectDue = FALSE]
  /\ UNCHANGED microtasks

\* what is typed into the LoginForm
ClientCredentials ==
  SeedCredentials \cup { [username |-> "teacher", password |-> "pw"],
                         [username |-> "nobody", password |-> "pw"] }

CanAct == calls < MaxClientOps

\* the visitor's events are counted; what follows from them is not
NextClient ==
  \/ \E path \in Paths : CanAct /\ ~effectsDue /\ open(path) /\ Requested
  \/ \E credentials \in ClientCredentials :
        CanAct /\ loginSubmit(credentials) /\ Requested
  \/ CanAct /\ logout /\ Requested
  \/ runEffects /\ UNCHANGED calls
  \/ sessionSettled /\ UNCHANGED calls
  \/ loginSettled /\ UNCHANGED calls

SpecClient == Init /\ [][NextClient]_vars

----------------------------------------------------------------------------
(* Properties of the repository                                             *)

Collections == DOMAIN nextIds

\* the map behind a collection name
Coll(c) ==
  CASE c = "users" -> users
    [] c = "departments" -> departments
    [] c = "courses" -> courses
    [] c = "modules" -> modules
    [] c = "moduleElements" -> moduleElements
    [] c = "teacherModuleElements" -> teacherModuleElements
    [] c = "students" -> students
    [] c = "studentGroups" -> studentGroups
    [] c = "studentGroupAssignments" -> studentGroupAssignments
    [] c = "sessions" -> sessions
    [] c = "absences" -> absences

\* C1: in every collection the ids returned by successive creates are
\* strictly increasing (hence pairwise distinct): an id that was handed out
\* once is never handed out again, also after its record was deleted.
C1_MonotonicIds ==
  \A c \in Collections :
    \A i, j \in 1..Len(issued[c]) : i < j => issued[c][i] < issued[c][j]

\* a course was created, deleted, and then another course was created
C1_Witness ==
  /\ issued.courses = <<1, 2>>
  /\ ~MapHas(courses, 1)
  /\ MapHas(courses, 2)
  /\ last.op = "create"
  /\ last.ret = MapGet(courses, 2)

\* what update(id, partial) may change in its own map m (m2 is the map
\* after): the entry of id keeps its place and its key, takes partial's
\* value for partial's fields and keeps every other field, with no field
\* added or lost; every other entry is as before
OnlyNamedFieldsChanged(m, m2, id, partial) ==
  /\ Len(m2) = Len(m)
  /\ \A i \in 1..Len(m) :
       IF m[i].key # id
       THEN m2[i] = m[i]
       ELSE /\ m2[i].key = id
            /\ DOMAIN m2[i].val = (DOMAIN m[i].val) \cup (DOMAIN partial)
            /\ \A f \in DOMAIN m2[i].val :
                 m2[i].val[f] = IF f \in DOMAIN partial THEN partial[f] ELSE m[i].val[f]

\* C2: update(id, partial) on an existing record changes only the fields
\* present in partial; every other field of the record, every other record
\* of the collection, every other collection and every id counter keep
\* their values.
C2_UpdateChangesOnlyNamedFields ==
  [][ last'.op = "update" =>
    /\ \A id \in Ids("users"), p \in PartialUsers :
         MapHas(users, id) /\ updateUser(id, p) =>
           OnlyNamedFieldsChanged(users, users', id, p)
           /\ UNCHANGED <<exceptUsers, nextIds>>
    /\ \A id \in Ids("departments"), p \in PartialDepartments :
         MapHas(departments, id) /\ updateDepartment(id, p) =>
           OnlyNamedFieldsChanged(departments, departments', id, p)
           /\ UNCHANGED <<exceptDepartments, nextIds>>
    /\ \A id \in Ids("courses"), p \in PartialCourses :
         MapHas(courses, id) /\ updateCourse(id, p) =>
           OnlyNamedFieldsChanged(courses, courses', id, p)
           /\ UNCHANGED <<exceptCourses, nextIds>>
    /\ \A id \in Ids("modules"), p \in PartialModules :
         MapHas(modules, id) /\ updateModule(id, p) =>
           OnlyNamedFieldsChanged(modules, modules', id, p)
           /\ UNCHANGED <<exceptModules, nextIds>>
    /\ \A id \in Ids("moduleElements"), p \in PartialModuleElements :
         MapHas(moduleElements, id) /\ updateModuleElement(id, p) =>
           OnlyNamedFieldsChanged(moduleElements, moduleElements', id, p)
           /\ UNCHANGED <<exceptModuleElements, nextIds>>
    /\ \A id \in Ids("students"), p \in PartialStudents :
         MapHas(students, id) /\ updateStudent(id, p) =>
           OnlyNamedFieldsChanged(students, students', id, p)
           /\ UNCHANGED <<exceptStudents, nextIds>>
    /\ \A id \in Ids("studentGroups"), p \in PartialStudentGroups :
         MapHas(studentGroups, id) /\ updateStudentGroup(id, p) =>
           OnlyNamedFieldsChanged(studentGroups, studentGroups', id, p)
           /\ UNCHANGED <<exceptStudentGroups, nextIds>>
    /\ \A id \in Ids("sessions"), p \in PartialSessions :
         MapHas(sessions, id) /\ updateSession(id, p) =>
           OnlyNamedFieldsChanged(sessions, sessions', id, p)
           /\ UNCHANGED <<exceptSessions, nextIds>>
    /\ \A id \in Ids("absences"), p \in PartialAbsences :
         MapHas(absences, id) /\ updateAbsence(id, p) =>
           OnlyNamedFieldsChanged(absences, absences', id, p)
           /\ UNCHANGED <<exceptAbsences, nextIds>>
  ]_vars

\* the second of two courses was updated with { absenceThreshold, description }
\* and is returned with its name, code and departmentId as created
C2_Witness ==
  /\ last.op = "update"
  /\ Len(courses) = 2
  /\ last.ret = courses[2].val
  /\ last.ret = [id |-> 2, name |-> "GI", code |-> "GI1", departmentId |-> 1,
                 absenceThreshold |-> 2, description |-> "d"]

\* C3: in every collection a record retrievable under identifier k has an
\* id field equal to k: no update, of that record or of another, changes
\* the id given at creation.
C3_IdIsKey ==
  \A c \in Collections :
    \A k \in 1..nextIds[c] :
      MapHas(Coll(c), k) =>
        /\ "id" \in DOMAIN MapGet(Coll(c), k)
        /\ MapGet(Coll(c), k).id = k

\* a course was updated from a request body that carried an id key
C3_Witness ==
  /\ last.op = "update"
  /\ last.ret # Undefined
  /\ \E body \in PutCourseBodies :
       /\ "id" \in DOMAIN body
       /\ \E i \in 1..Len(courses) :
            /\ courses[i].val = last.ret
            /\ \A f \in (DOMAIN body) \ {"id"} : courses[i].val[f] = body[f]

\* C4: update(id, partial) for an id that is not in the collection returns
\* undefined, stores nothing under that id, and leaves the collection, the
\* other collections and the id counters as they were.
C4_UpdateMissingChangesNothing ==
  [][ last'.op = "update" =>
    /\ \A id \in Ids("users"), p \in PartialUsers :
         ~MapHas(users, id) /\ updateUser(id, p) =>
           last'.ret = Undefined /\ ~MapHas(users', id)
           /\ UNCHANGED <<users, exceptUsers, nextIds>>
    /\ \A id \in Ids("departments"), p \in PartialDepartments :
         ~MapHas(departments, id) /\ updateDepartment(id, p) =>
           last'.ret = Undefined /\ ~MapHas(departments', id)
           /\ UNCHANGED <<departments, exceptDepartments, nextIds>>
    /\ \A id \in Ids("courses"), p \in PartialCourses :
         ~MapHas(courses, id) /\ updateCourse(id, p) =>
           last'.ret = Undefined /\ ~MapHas(courses', id)
           /\ UNCHANGED <<courses, exceptCourses, nextIds>>
    /\ \A id \in Ids("modules"), p \in PartialModules :
         ~MapHas(modules, id) /\ updateModule(id, p) =>
           last'.ret = Undefined /\ ~MapHas(modules', id)
           /\ UNCHANGED <<modules, exceptModules, nextIds>>
    /\ \A id \in Ids("moduleElements"), p \in PartialModuleElements :
         ~MapHas(moduleElements, id) /\ updateModuleElement(id, p) =>
           last'.ret = Undefined /\ ~MapHas(moduleElements', id)
           /\ UNCHANGED <<moduleElements, exceptModuleElements, nextIds>>
    /\ \A id \in Ids("students"), p \in PartialStudents :
         ~MapHas(students, id) /\ updateStudent(id, p) =>
           last'.ret = Undefined /\ ~MapHas(students', id)
           /\ UNCHANGED <<students, exceptStudents, nextIds>>
    /\ \A id \in Ids("studentGroups"), p \in PartialStudentGroups :
         ~MapHas(studentGroups, id) /\ updateStudentGroup(id, p) =>
           last'.ret = Undefined /\ ~MapHas(studentGroups', id)
           /\ UNCHANGED <<studentGroups, exceptStudentGroups, nextIds>>
    /\ \A id \in Ids("sessions"), p \in PartialSessions :
         ~MapHas(sessions, id) /\ updateSession(id, p) =>
           last'.ret = Undefined /\ ~MapHas(sessions', id)
           /\ UNCHANGED <<sessions, exceptSessions, nextIds>>
    /\ \A id \in Ids("absences"), p \in PartialAbsences :
         ~MapHas(absences, id) /\ updateAbsence(id, p) =>
           last'.ret = Undefined /\ ~MapHas(absences', id)
           /\ UNCHANGED <<absences, exceptAbsences, nextIds>>
  ]_vars

\* an update found no record, in a store where a seeded user has been
\* deleted and a course created
C4_Witness ==
  /\ last.op = "update"
  /\ last.ret = Undefined
  /\ Len(users) < Len(SeedUsers)
  /\ Len(courses) = 1

\* what delete(id) does to its own map m (m2 is the map after) and returns:
\* true exactly when some record of m has that id; that record is gone and
\* every other record is retrievable as before
DeletedOnly(m, m2, id, ret) ==
  /\ ret = (\E i \in 1..Len(m) : m[i].val.id = id)
  /\ ~MapHas(m2, id)
  /\ Len(m2) = Len(m) - (IF ret THEN 1 ELSE 0)
  /\ \A i \in 1..Len(m) :
       m[i].key # id => MapHas(m2, m[i].key) /\ MapGet(m2, m[i].key) = m[i].val
  /\ ~ret => m2 = m

\* C5: delete(id) returns true exactly when a record with that id was in the
\* collection, and removes that record only; for an absent id it returns
\* false and changes nothing. After any delete(id) the id is absent, so a
\* second delete(id) with no create in between is a delete of an absent id
\* and returns false.
C5_DeleteRemovesOnlyThatRecord ==
  [][ last'.op = "delete" =>
    /\ \A id \in Ids("users") : deleteUser(id) =>
         DeletedOnly(users, users', id, last'.ret)
         /\ UNCHANGED <<exceptUsers, nextIds>>
    /\ \A id \in Ids("departments") : deleteDepartment(id) =>
         DeletedOnly(departments, departments', id, last'.ret)
         /\ UNCHANGED <<exceptDepartments, nextIds>>
    /\ \A id \in Ids("courses") : deleteCourse(id) =>
         DeletedOnly(courses, courses', id, last'.ret)
         /\ UNCHANGED <<exceptCourses, nextIds>>
    /\ \A id \in Ids("modules") : deleteModule(id) =>
         DeletedOnly(modules, modules', id, last'.ret)
         /\ UNCHANGED <<exceptModules, nextIds>>
    /\ \A id \in Ids("moduleElements") : deleteModuleElement(id) =>
         DeletedOnly(moduleElements, moduleElements', id, last'.ret)
         /\ UNCHANGED <<exceptModuleElements, nextIds>>
    /\ \A id \in Ids("students") : deleteStudent(id) =>
         DeletedOnly(students, students', id, last'.ret)
         /\ UNCHANGED <<exceptStudents, nextIds>>
    /\ \A id \in Ids("studentGroups") : deleteStudentGroup(id) =>
         DeletedOnly(studentGroups, studentGroups', id, last'.ret)
         /\ UNCHANGED <<exceptStudentGroups, nextIds>>
    /\ \A id \in Ids("sessions") : deleteSession(id) =>
         DeletedOnly(sessions, sessions', id, last'.ret)
         /\ UNCHANGED <<exceptSessions, nextIds>>
    /\ \A id \in Ids("absences") : deleteAbsence(id) =>
         DeletedOnly(absences, absences', id, last'.ret)
         /\ UNCHANGED <<exceptAbsences, nextIds>>
  ]_vars

\* a delete returned false after course 1, the only course ever created,
\* had been deleted
C5_Witness ==
  /\ last.op = "delete"
  /\ last.ret = FALSE
  /\ issued.courses = <<1>>
  /\ courses = <<>>
  /\ calls = 3

\* the foreign-key values given to the filtered lists
FkArgs == 0..3

\* result is the subsequence of list whose field f equals v: as long as the
\* number of matching places of list, and its k-th element is the element at
\* the k-th matching place
IsSubsequenceWhere(result, list, f, v) ==
  LET places == {i \in 1..Len(list) : list[i][f] = v}
  IN /\ Len(result) = Cardinality(places)
     /\ \A k \in 1..Len(result) :
          \E i \in places :
            /\ Cardinality({j \in places : j < i}) = k - 1
            /\ result[k] = list[i]

\* C6: every foreign-key filter returns, for every argument v, exactly the
\* subsequence of the collection's list() whose foreign key equals v: no
\* record missing, none extra, in list() order.
C6_FiltersAreSubsequences ==
  \A v \in FkArgs :
    /\ IsSubsequenceWhere(listCoursesByDepartment(v), listCourses, "departmentId", v)
    /\ IsSubsequenceWhere(listModulesByCourse(v), listModules, "courseId", v)
    /\ IsSubsequenceWhere(listModuleElementsByModule(v), listModuleElements, "moduleId", v)
    /\ IsSubsequenceWhere(listStudentsByCourse(v), listStudents, "courseId", v)
    /\ IsSubsequenceWhere(listStudentGroupsByCourse(v), listStudentGroups, "courseId", v)
    /\ IsSubsequenceWhere(listSessionsByTeacher(v), listSessions, "teacherId", v)
    /\ IsSubsequenceWhere(listSessionsByModuleElement(v), listSessions,
                          "moduleElementId", v)
    /\ IsSubsequenceWhere(listAbsencesBySession(v), listAbsences, "sessionId", v)
    /\ IsSubsequenceWhere(listAbsencesByStudent(v), listAbsences, "studentId", v)

\* two students, the first moved to course 2: each filter returns the one
\* student of its course and leaves the other out
C6_Witness ==
  /\ Len(listStudents) = 2
  /\ listStudentsByCourse(2) = <<listStudents[1]>>
  /\ listStudentsByCourse(1) = <<listStudents[2]>>

\* C10: batchCreateAbsences(xs) returns as many records as xs has items, the
\* i-th with the field values of xs[i] and an id never handed out before;
\* the ids increase with the position; every returned record is stored; an
\* empty xs returns the empty list and changes nothing.
C10_BatchCreateInOrder ==
  [][ last'.op = "batchCreate" =>
    \A xs \in BatchInputs : batchCreateAbsences(xs) =>
      LET created == last'.ret
      IN /\ Len(created) = Len(xs)
         /\ \A i \in 1..Len(xs) :
              /\ DOMAIN created[i] = (DOMAIN xs[i]) \cup {"id"}
              /\ \A f \in DOMAIN xs[i] : created[i][f] = xs[i][f]
              /\ \A k \in 1..Len(issued.absences) : created[i].id # issued.absences[k]
              /\ ~MapHas(absences, created[i].id)
              /\ MapHas(absences', created[i].id)
              /\ MapGet(absences', created[i].id) = created[i]
         /\ \A i, j \in 1..Len(xs) : i < j => created[i].id < created[j].id
         /\ Len(absences') = Len(absences) + Len(xs)
         /\ UNCHANGED exceptAbsences
         /\ xs = <<>> => created = <<>> /\ UNCHANGED <<absences, nextIds>>
  ]_vars

\* a batch of two different rows was created after an earlier absence had
\* taken id 1 and been deleted
C10_Witness ==
  /\ last.op = "batchCreate"
  /\ Len(last.ret) = 2
  /\ last.ret[1].status # last.ret[2].status
  /\ last.ret[1].id = 2
  /\ Len(absences) = 2

\* the group ids given to the join
GroupArgs == 0..3

\* the record with this id is in the list
ContainsId(list, id) == \E i \in 1..Len(list) : list[i].id = id

\* the rows of table m whose fields f and g have the values v and w
RowsOfPair(m, f, v, g, w) ==
  {i \in 1..Len(m) : m[i].val[f] = v /\ m[i].val[g] = w}

\* C7: listStudentsByGroup(g) is exactly the subsequence of the Student list
\* made of the students named by at least one assignment row of group g:
\* each of them once, whatever the number and the order of the rows.
C7_JoinFollowsStudentList ==
  \A g \in GroupArgs :
    LET result == listStudentsByGroup(g)
        named == {i \in 1..Len(listStudents) :
                    \E r \in 1..Len(studentGroupAssignments) :
                      /\ studentGroupAssignments[r].val.groupId = g
                      /\ studentGroupAssignments[r].val.studentId = listStudents[i].id}
    IN /\ Len(result) = Cardinality(named)
       /\ \A k \in 1..Len(result) :
            \E i \in named :
              /\ Cardinality({j \in named : j < i}) = k - 1
              /\ result[k] = listStudents[i]
       /\ \A i, j \in 1..Len(result) : i < j => result[i].id # result[j].id

\* students 1 and 2 are stored; group 1 has three rows, the first for
\* student 2 and two for student 1; the join is student 1 then student 2
C7_Witness ==
  /\ Len(listStudents) = 2
  /\ Len(listStudentGroupAssignments(1)) = 3
  /\ listStudentGroupAssignments(1)[1].studentId = 2
  /\ listStudentGroupAssignments(1)[2].studentId = 1
  /\ listStudentGroupAssignments(1)[3].studentId = 1
  /\ listStudentsByGroup(1) = listStudents
  /\ listStudents[1].id = 1

\* C8 as stated: right after assignStudentToGroup for a stored student the
\* join contains the student, and right after removeStudentFromGroup(s, g)
\* returns true the join of g no longer contains s.
C8_RemovedStudentLeavesJoin ==
  [][ last'.op \in {"assign", "remove"} =>
    \A a \in GroupPairs :
      /\ assignStudentToGroup(a) /\ MapHas(students, a.studentId) =>
           ContainsId(listStudentsByGroup(a.groupId)', a.studentId)
      /\ removeStudentFromGroup(a.studentId, a.groupId) /\ last'.ret = TRUE =>
           ~ContainsId(listStudentsByGroup(a.groupId)', a.studentId)
  ]_vars

\* C8, amended: right after assignStudentToGroup for a stored student the
\* join contains the student; right after removeStudentFromGroup(s, g)
\* returns true one row of the pair is gone, and the join of g contains s
\* exactly when s is stored and another row of the pair is left.
C8_JoinReflectsRows ==
  [][ last'.op \in {"assign", "remove"} =>
    \A a \in GroupPairs :
      /\ assignStudentToGroup(a) /\ MapHas(students, a.studentId) =>
           ContainsId(listStudentsByGroup(a.groupId)', a.studentId)
      /\ removeStudentFromGroup(a.studentId, a.groupId) /\ last'.ret = TRUE =>
           LET before == RowsOfPair(studentGroupAssignments, "studentId", a.studentId,
                                    "groupId", a.groupId)
               left == RowsOfPair(studentGroupAssignments', "studentId", a.studentId,
                                  "groupId", a.groupId)
           IN /\ Cardinality(left) = Cardinality(before) - 1
              /\ ContainsId(listStudentsByGroup(a.groupId)', a.studentId)
                   <=> (MapHas(students, a.studentId) /\ left # {})
  ]_vars

\* student 1 is stored, a removal of a pair of student 1 has just returned
\* true, and the join of group 1 still has student 1 through a second row
C8_Witness ==
  /\ last.op = "remove"
  /\ last.ret = TRUE
  /\ MapHas(students, 1)
  /\ issued.studentGroupAssignments = <<1, 2>>
  /\ Len(studentGroupAssignments) = 1
  /\ studentGroupAssignments[1].key = 2
  /\ studentGroupAssignments[1].val.groupId = 1
  /\ ContainsId(listStudentsByGroup(1), 1)

\* what a two-key removal does to its table m (m2 is the table after): with
\* no row of the pair it returns false and leaves m; otherwise it returns
\* true and m2 is m without the first row of the pair, which is also the row
\* of the pair with the smallest id
RemovedFirstOfPair(m, m2, f, v, g, w, ret) ==
  LET rows == RowsOfPair(m, f, v, g, w)
  IN IF rows = {}
     THEN ret = FALSE /\ m2 = m
     ELSE LET first == CHOOSE i \in rows : \A j \in rows : i <= j
          IN /\ ret = TRUE
             /\ \A j \in rows : m[first].val.id <= m[j].val.id
             /\ m2 = [k \in 1..(Len(m) - 1) |-> IF k < first THEN m[k] ELSE m[k + 1]]

\* C9: a two-key removal deletes exactly the first row (smallest id) whose
\* two foreign keys match and leaves every other row, those of the same pair
\* included; with no matching row it returns false and changes nothing. An
\* assignment always adds a row, however many rows of its pair exist.
C9_RemoveDeletesFirstMatchOnly ==
  [][ last'.op \in {"assign", "remove"} =>
    /\ \A a \in GroupPairs :
         /\ removeStudentFromGroup(a.studentId, a.groupId) =>
              /\ RemovedFirstOfPair(studentGroupAssignments, studentGroupAssignments',
                                    "studentId", a.studentId, "groupId", a.groupId,
                                    last'.ret)
              /\ UNCHANGED <<exceptStudentGroupAssignments, nextIds>>
         /\ assignStudentToGroup(a) =>
              studentGroupAssignments' = Append(studentGroupAssignments,
                                                [key |-> last'.ret.id, val |-> last'.ret])
    /\ \A a \in TeacherPairs :
         /\ removeTeacherFromModuleElement(a.teacherId, a.moduleElementId) =>
              /\ RemovedFirstOfPair(teacherModuleElements, teacherModuleElements',
                                    "teacherId", a.teacherId,
                                    "moduleElementId", a.moduleElementId, last'.ret)
              /\ UNCHANGED <<exceptTeacherModuleElements, nextIds>>
         /\ assignTeacherToModuleElement(a) =>
              teacherModuleElements' = Append(teacherModuleElements,
                                              [key |-> last'.ret.id, val |-> last'.ret])
  ]_vars

\* of four rows, three of them for the pair (1, 1), a removal took the first:
\* the row of the other pair and the two later rows of the same pair are left
C9_Witness ==
  /\ last.op = "remove"
  /\ last.ret = TRUE
  /\ issued.studentGroupAssignments = <<1, 2, 3, 4>>
  /\ Len(studentGroupAssignments) = 3
  /\ studentGroupAssignments[1].key = 2
  /\ studentGroupAssignments[1].val.studentId = 2
  /\ studentGroupAssignments[2].val = [studentId |-> 1, groupId |-> 1, id |-> 3]
  /\ studentGroupAssignments[3].val = [studentId |-> 1, groupId |-> 1, id |-> 4]

\* the number of rows of the absence list with this student and status
\* "absent"
AbsentRows(studentId) ==
  {i \in 1..Len(listAbsences) :
     /\ listAbsences[i].studentId = studentId
     /\ listAbsences[i].status = "absent"}

\* the students with at least one row of status "absent"
Absentees ==
  {listAbsences[i].studentId : i \in {j \in 1..Len(listAbsences) :
                                         listAbsences[j].status = "absent"}}

\* the place of the student's first "absent" row in the absence list
FirstAbsentRow(studentId) ==
  CHOOSE i \in AbsentRows(studentId) : \A j \in AbsentRows(studentId) : i <= j

\* C11: whatever the limit, top-absentees lists students with at least one
\* "absent" row, each once, with the number of the student's "absent" rows
\* as its count (rows of another status never count), by non-increasing
\* count; no omitted student has a strictly larger count than a listed one;
\* students with equal counts are in the order of their first "absent" row.
C11_TopAbsenteesRanking ==
  \A query \in Queries :
    LET top == topAbsentees(query)
        Listed == {top[i].studentId : i \in 1..Len(top)}
    IN /\ \A i \in 1..Len(top) :
            /\ top[i].studentId \in Absentees
            /\ top[i].absenceCount = Cardinality(AbsentRows(top[i].studentId))
       /\ \A i, j \in 1..Len(top) :
            i < j =>
              /\ top[i].studentId # top[j].studentId
              /\ top[i].absenceCount >= top[j].absenceCount
              /\ top[i].absenceCount = top[j].absenceCount =>
                   FirstAbsentRow(top[i].studentId) < FirstAbsentRow(top[j].studentId)
       /\ \A s \in Absentees \ Listed :
            \A i \in 1..Len(top) :
              /\ Cardinality(AbsentRows(s)) <= top[i].absenceCount
              /\ Cardinality(AbsentRows(s)) = top[i].absenceCount =>
                   FirstAbsentRow(top[i].studentId) < FirstAbsentRow(s)

\* students 1 and 2 have one "absent" row each and student 3 has two; student
\* 1 also has a row of another status; with limit 2 the list is student 3,
\* then student 1, and student 2 is left out
C11_Witness ==
  /\ Cardinality(AbsentRows(1)) = 1
  /\ Cardinality(AbsentRows(2)) = 1
  /\ Cardinality(AbsentRows(3)) = 2
  /\ \E i \in 1..Len(listAbsences) :
       listAbsences[i].studentId = 1 /\ listAbsences[i].status # "absent"
  /\ Pluck(topAbsentees([limit |-> 2]), "studentId") = <<3, 1>>
  /\ Pluck(topAbsentees([limit |-> 2]), "absenceCount") = <<2, 1>>

\* C12: top-absentees has exactly min(limit, k) entries, k being the number
\* of students with an "absent" row, and never more than limit entries; the
\* limit is 5 when the query gives none. A list has no fewer than 0 entries,
\* so for a negative limit this asks for an empty list.
C12_TruncatedToLimit ==
  \A query \in Queries :
    LET limit == IF "limit" \in DOMAIN query THEN query.limit ELSE 5
        k == Cardinality(Absentees)
        least == IF limit < k THEN limit ELSE k
        n == Len(topAbsentees(query))
    IN /\ n = (IF least < 0 THEN 0 ELSE least)
       /\ n <= (IF limit < 0 THEN 0 ELSE limit)

\* the student is in the list of students exceeding the threshold on the
\* card of the course
Flagged(course, student) ==
  /\ thresholdCard(course).rendered
  /\ Includes(thresholdCard(course).studentsExceedingThreshold, student)

\* C13: for every stored course with a threshold and every stored student of
\* that course, the student is flagged exactly when the number of the
\* student's "absent" rows is strictly greater than the threshold.
C13_FlaggedIffAboveThreshold ==
  \A c \in 1..Len(listCourses), s \in 1..Len(listStudents) :
    LET course == listCourses[c]
        student == listStudents[s]
    IN ("absenceThreshold" \in DOMAIN course /\ student.courseId = course.id) =>
         (Flagged(course, student)
            <=> Cardinality(AbsentRows(student.id)) > course.absenceThreshold)

\* every record of table m whose field f names id is stored unchanged in m2
StillStored(m, m2, f, id) ==
  \A i \in 1..Len(m) :
    (f \in DOMAIN m[i].val /\ m[i].val[f] = id) =>
      MapHas(m2, m[i].key) /\ MapGet(m2, m[i].key) = m[i].val

\* C14: deleting a parent changes its own collection only; every record of
\* another collection that names the deleted id through a foreign key is
\* stored unchanged after the delete.
C14_DeleteNeverCascades ==
  [][ last'.op = "delete" =>
    /\ \A id \in Ids("departments") : deleteDepartment(id) =>
         /\ StillStored(users, users', "departmentId", id)
         /\ StillStored(courses, courses', "departmentId", id)
         /\ UNCHANGED exceptDepartments
    /\ \A id \in Ids("courses") : deleteCourse(id) =>
         /\ StillStored(modules, modules', "courseId", id)
         /\ StillStored(students, students', "courseId", id)
         /\ StillStored(studentGroups, studentGroups', "courseId", id)
         /\ UNCHANGED exceptCourses
    /\ \A id \in Ids("modules") : deleteModule(id) =>
         /\ StillStored(moduleElements, moduleElements', "moduleId", id)
         /\ UNCHANGED exceptModules
    /\ \A id \in Ids("moduleElements") : deleteModuleElement(id) =>
         /\ StillStored(teacherModuleElements, teacherModuleElements',
                        "moduleElementId", id)
         /\ StillStored(sessions, sessions', "moduleElementId", id)
         /\ UNCHANGED exceptModuleElements
    /\ \A id \in Ids("students") : deleteStudent(id) =>
         /\ StillStored(studentGroupAssignments, studentGroupAssignments',
                        "studentId", id)
         /\ StillStored(absences, absences', "studentId", id)
         /\ UNCHANGED exceptStudents
    /\ \A id \in Ids("studentGroups") : deleteStudentGroup(id) =>
         /\ StillStored(studentGroupAssignments, studentGroupAssignments',
                        "groupId", id)
         /\ StillStored(sessions, sessions', "groupId", id)
         /\ UNCHANGED exceptStudentGroups
    /\ \A id \in Ids("sessions") : deleteSession(id) =>
         /\ StillStored(absences, absences', "sessionId", id)
         /\ UNCHANGED exceptSessions
    /\ \A id \in Ids("users") : deleteUser(id) =>
         /\ StillStored(teacherModuleElements, teacherModuleElements',
                        "teacherId", id)
         /\ StillStored(sessions, sessions', "teacherId", id)
         /\ UNCHANGED exceptUsers
  ]_vars

\* course 1 has just been deleted and the student enrolled in course 1 is
\* still stored
C14_Witness ==
  /\ last.op = "delete"
  /\ last.ret = TRUE
  /\ issued.courses = <<1>>
  /\ courses = <<>>
  /\ Len(students) = 1
  /\ students[1].val.courseId = 1

\* what create(data) does to its own map m (m2 is the map after): the
\* returned record has the fields of data and an id that is no key of m, and
\* m2 is m with that record added after the records of m, which are all kept
CreatedBeside(m, m2, data, ret) ==
  /\ DOMAIN ret = (DOMAIN data) \cup {"id"}
  /\ \A f \in DOMAIN data : ret[f] = data[f]
  /\ ~MapHas(m, ret.id)
  /\ m2 = Append(m, [key |-> ret.id, val |-> ret])

\* C15: a create returns a record and stores it under a new id whatever the
\* stored records are: a second create with the same username, email,
\* department name, course code or student number keeps the first record
\* and adds the second.
C15_CreateEnforcesNoUniqueness ==
  [][ last'.op = "create" =>
    /\ \A user \in InsertUsers : createUser(user) =>
         CreatedBeside(users, users', user, last'.ret)
    /\ \A department \in InsertDepartments : createDepartment(department) =>
         CreatedBeside(departments, departments', department, last'.ret)
    /\ \A course \in InsertCourses : createCourse(course) =>
         CreatedBeside(courses, courses', course, last'.ret)
    /\ \A student \in InsertStudents : createStudent(student) =>
         CreatedBeside(students, students', student, last'.ret)
  ]_vars

\* two courses with the same code are stored under the ids 1 and 2, the
\* second just created
C15_Witness ==
  /\ last.op = "create"
  /\ Len(courses) = 2
  /\ courses[1].val.code = courses[2].val.code
  /\ courses[1].key = 1
  /\ courses[2].key = 2
  /\ last.ret = courses[2].val

\* C16: a course created without an absenceThreshold is stored with the
\* threshold 3, and every stored course has a threshold.
C16_ThresholdDefaultsToThree ==
  [][ last'.op = "create" =>
    \A course \in InsertCourses :
      (createCourse(course) /\ "absenceThreshold" \notin DOMAIN course) =>
        /\ "absenceThreshold" \in DOMAIN MapGet(courses', last'.ret.id)
        /\ MapGet(courses', last'.ret.id).absenceThreshold = 3
        /\ \A i \in 1..Len(courses') : "absenceThreshold" \in DOMAIN courses'[i].val
  ]_vars

\* C17: before any call the users are the three seeds, with the ids 1, 2, 3
\* and one of each role, and every other collection is empty; the first user
\* a caller creates gets the id 4.
C17_SeededUsers ==
  /\ calls = 0 =>
       /\ Pluck(listUsers, "id") = <<1, 2, 3>>
       /\ \A role \in {"admin", "teacher", "departmentHead"} :
            Cardinality({i \in 1..Len(users) : users[i].val.role = role}) = 1
       /\ \A c \in (DOMAIN nextIds) \ {"users"} : Coll(c) = <<>>
  /\ Len(issued.users) > 3 => issued.users[4] = 4

\* the first call of the run created a user, who got the id 4 beside the
\* three seeds
C17_Witness ==
  /\ calls = 1
  /\ last.op = "create"
  /\ Len(users) = 4
  /\ last.ret.id = 4
  /\ MapGet(users, 4) = last.ret

\* C18: recent-activity returns the first limit sessions (5 when the query
\* gives no limit, none for a negative limit) of the session list by date,
\* newest first: as many entries as the limit and the list allow, each a
\* stored session with its date, dates not increasing, no session left out
\* that is newer than a returned one, and each with the number of "absent"
\* rows of that session as its absencesCount.
C18_RecentActivitiesNewestFirst ==
  \A query \in Queries :
    LET recent == activities(query)
        limit == IF "limit" \in DOMAIN query THEN query.limit ELSE 5
        k == Len(listSessions)
        least == IF limit < k THEN limit ELSE k
        Returned == {recent[i].sessionId : i \in 1..Len(recent)}
    IN /\ Len(recent) = (IF least < 0 THEN 0 ELSE least)
       /\ \A i \in 1..Len(recent) :
            /\ \E n \in 1..k :
                 /\ listSessions[n].id = recent[i].sessionId
                 /\ listSessions[n].date = recent[i].date
            /\ recent[i].absencesCount =
                 Cardinality({a \in 1..Len(listAbsences) :
                                /\ listAbsences[a].sessionId = recent[i].sessionId
                                /\ listAbsences[a].status = "absent"})
            /\ \A n \in 1..k :
                 listSessions[n].id \notin Returned =>
                   listSessions[n].date <= recent[i].date
       /\ \A i, j \in 1..Len(recent) :
            i < j => /\ recent[i].date >= recent[j].date
                     /\ recent[i].sessionId # recent[j].sessionId

\* the name the aggregations are to show for the record of list with this
\* id, names being the names of the records of list in order: the name of
\* the record when it is stored, "Unknown" when it is not
ResolvedName(list, names, id) ==
  IF \E i \in 1..Len(list) : list[i].id = id
  THEN names[CHOOSE i \in 1..Len(list) : list[i].id = id]
  ELSE "Unknown"

\* C19: in recent-activity teacherName is the fullName of the stored user
\* with the session's teacherId, whatever the user's role, and
\* moduleElementName the name of the stored module element; in
\* top-absentees studentName is the name of the stored student; each is
\* "Unknown" only when no such record is stored.
C19_NamesResolveWhenStored ==
  LET studentNames ==
        [i \in 1..Len(listStudents) |->
           listStudents[i].firstName \o " " \o listStudents[i].lastName]
  IN \A query \in Queries :
       /\ \A i \in 1..Len(activities(query)) :
            LET activity == activities(query)[i]
                session == FindEq(listSessions, "id", activity.sessionId)
            IN /\ activity.teacherName =
                    ResolvedName(listUsers, Pluck(listUsers, "fullName"),
                                 session.teacherId)
               /\ activity.moduleElementName =
                    ResolvedName(listModuleElements, Pluck(listModuleElements, "name"),
                                 session.moduleElementId)
       /\ \A i \in 1..Len(topAbsentees(query)) :
            LET entry == topAbsentees(query)[i]
            IN entry.studentName =
                 ResolvedName(listStudents, studentNames, entry.studentId)

\* the operation kinds of the reads
ReadOps == {"get", "list", "statistics", "topAbsentees", "recentActivities"}

\* C20: a read (get, list, a filtered list, listStudentsByGroup, the
\* statistics, top-absentees, recent-activities) leaves every collection,
\* the list() of every collection in its order, and every id counter as it
\* was.
C20_ReadsChangeNothing ==
  [][ last'.op \in ReadOps =>
    /\ \A c \in Collections :
         /\ Coll(c)' = Coll(c)
         /\ MapValues(Coll(c))' = MapValues(Coll(c))
    /\ nextIds' = nextIds
  ]_vars

\* the sessions are stored oldest first, and recent-activities has just
\* returned them newest first
C20_Witness ==
  /\ last.op = "recentActivities"
  /\ Pluck(listSessions, "date") = <<1, 2>>
  /\ Pluck(last.ret, "sessionId") = <<2, 1>>

\* every id counter but that of the absences is as it was
OtherCountersKept ==
  \A c \in Collections \ {"absences"} : nextIds'[c] = nextIds[c]

\* C21: createAbsence and batchCreateAbsences store their rows whatever the
\* absent-count of the student and the absenceThreshold of the course are,
\* and change nothing but the absences and their id counter.
C21_ThresholdNeverEnforced ==
  [][ last'.op \in {"create", "batchCreate"} =>
    /\ \A absence \in ReportRows : createAbsence(absence) =>
         /\ CreatedBeside(absences, absences', absence, last'.ret)
         /\ nextIds'.absences = nextIds.absences + 1
         /\ OtherCountersKept
         /\ UNCHANGED exceptAbsences
    /\ \A xs \in RollCalls : batchCreateAbsences(xs) =>
         /\ Len(last'.ret) = Len(xs)
         /\ \A i \in 1..Len(xs) :
              absences'[Len(absences) + i] =
                [key |-> last'.ret[i].id, val |-> WithId(xs[i], last'.ret[i].id)]
         /\ Len(absences') = Len(absences) + Len(xs)
         /\ nextIds'.absences = nextIds.absences + Len(xs)
         /\ OtherCountersKept
         /\ UNCHANGED exceptAbsences
  ]_vars

\* a roll call has just stored an "absent" row of a stored student whose
\* course has a threshold that the student's absent-count now exceeds
C21_Witness ==
  /\ last.op = "batchCreate"
  /\ \E s \in 1..Len(listStudents), c \in 1..Len(listCourses) :
       /\ listStudents[s].courseId = listCourses[c].id
       /\ "absenceThreshold" \in DOMAIN listCourses[c]
       /\ Cardinality(AbsentRows(listStudents[s].id)) > listCourses[c].absenceThreshold
       /\ \E i \in 1..Len(last.ret) :
            /\ last.ret[i].studentId = listStudents[s].id
            /\ MapGet(absences, last.ret[i].id) = last.ret[i]

\* the query strings that are numerals
Numerals == QueryStrings \ {""}

\* C23: for every numeral v, 0 included, each filtered list route returns
\* exactly the stored records whose foreign key equals v, in the order of
\* the list.
C23_FilterAppliedForEveryValue ==
  \A v \in Numerals :
    /\ coursesRoute([departmentId |-> v])
         = FilterEq(listCourses, "departmentId", parseInt(v))
    /\ modulesRoute([courseId |-> v])
         = FilterEq(listModules, "courseId", parseInt(v))
    /\ moduleElementsRoute([moduleId |-> v])
         = FilterEq(listModuleElements, "moduleId", parseInt(v))
    /\ studentsRoute([courseId |-> v])
         = FilterEq(listStudents, "courseId", parseInt(v))
    /\ studentGroupsRoute([courseId |-> v])
         = FilterEq(listStudentGroups, "courseId", parseInt(v))
    /\ sessionsRoute([teacherId |-> v])
         = FilterEq(listSessions, "teacherId", parseInt(v))
    /\ absencesRoute([sessionId |-> v])
         = FilterEq(listAbsences, "sessionId", parseInt(v))

\* C29: in every state the list() of every collection is in strictly
\* ascending order of id.
C29_ListsAscendingById ==
  \A c \in Collections :
    LET list == MapValues(Coll(c))
    IN \A i, j \in 1..Len(list) : i < j => list[i].id < list[j].id

\* user 2 has been deleted and user 1 has just been updated: the updated
\* record is still the first of the list and user 3 follows it
C29_Witness ==
  /\ last.op = "update"
  /\ Pluck(listUsers, "id") = <<1, 3>>
  /\ last.ret = listUsers[1]
  /\ last.ret # WithId(SeedUsers[1], 1)

\* the role of the user who sends the request: the role in the record now
\* stored under the id the session of the cookie holds, "none" without one
Requester(cookie) ==
  IF /\ "passport" \in DOMAIN sessionStore[cookie]
     /\ MapHas(users, sessionStore[cookie].passport.user)
  THEN MapGet(users, sessionStore[cookie].passport.user).role
  ELSE "none"

AdminOnly == {"admin"}

HeadOrAdmin == {"admin", "departmentHead"}

AnyStaff == {"admin", "departmentHead", "teacher"}

\* the request of the cookie is answered by its handler when the requester's
\* role is one of roles; otherwise it is answered 401 or 403 and no
\* collection and no id counter changes
SlicedTo(roles, cookie) ==
  IF Requester(cookie) \in roles
  THEN response'.status \notin {401, 403}
  ELSE /\ response'.status \in {401, 403}
       /\ \A c \in Collections : Coll(c)' = Coll(c)
       /\ nextIds' = nextIds

AdmittedNow(roles, cookie) ==
  (response'.status \notin {401, 403}) <=> (Requester(cookie) \in roles)

PublicOnly(body, user) ==
  /\ DOMAIN body \subseteq PublicUserKeys
  /\ \A f \in DOMAIN body : body[f] = user[f]

\* C27: the answers of login, session, list users, get user, create user and
\* update user hold of each user only id, username, fullName, email, role
\* and departmentId, never the password.
C27_NoPasswordInResponses ==
  [][ last'.op \in {"login", "session", "getUser", "listUsers", "create",
                    "update"} =>
    /\ \A cookie \in Cookies, credentials \in UserCredentials :
         (POST_auth_login(cookie, credentials) /\ response'.status = 200) =>
           PublicOnly(response'.body, last'.ret)
    /\ \A cookie \in Cookies :
         (GET_auth_session(cookie) /\ response'.status = 200) =>
           PublicOnly(response'.body.user, last'.ret)
    /\ \A cookie \in Cookies :
         (GET_users(cookie) /\ response'.status = 200) =>
           /\ Len(response'.body) = Len(users)
           /\ \A i \in 1..Len(users) :
                PublicOnly(response'.body[i], users[i].val)
    /\ \A cookie \in Cookies, id \in UserIds :
         (GET_users_id(cookie, id) /\ response'.status = 200) =>
           PublicOnly(response'.body, last'.ret)
    /\ \A cookie \in Cookies, body \in DuplicateUsers :
         (POST_users(cookie, body) /\ response'.status = 201) =>
           PublicOnly(response'.body, last'.ret)
    /\ \A cookie \in Cookies, id \in UserIds, body \in RoleChanges :
         (PUT_users(cookie, id, body) /\ response'.status = 200) =>
           PublicOnly(response'.body, last'.ret)
  ]_vars

\* the administrator has just listed the users: the three stored records
\* have passwords and the three answered records have none
C27_Witness ==
  /\ last.op = "listUsers"
  /\ response.status = 200
  /\ Len(users) = 3
  /\ Len(response.body) = 3
  /\ \A i \in 1..3 :
       /\ "password" \in DOMAIN users[i].val
       /\ DOMAIN response.body[i] = DOMAIN users[i].val \ {"password"}

\* the stored users with the username
Holders(username) ==
  { i \in 1..Len(users) : users[i].val.username = username }

\* of the stored users with the username, the one of the smallest id
FirstHolder(username) ==
  users[CHOOSE i \in Holders(username) :
          \A j \in Holders(username) : users[i].val.id <= users[j].val.id].val

\* C28: getUserByUsername finds the stored user of the smallest id among
\* those with the username, and none when there is none; a login succeeds
\* exactly with that user's password and logs that user in.
C28_FirstOfTheNameLogsIn ==
  [][ last'.op = "login" =>
    \A cookie \in Cookies, credentials \in UserCredentials :
      POST_auth_login(cookie, credentials) =>
        IF Holders(credentials.username) = {}
        THEN /\ last'.ret = Undefined
             /\ response'.status = 401
        ELSE /\ last'.ret = FirstHolder(credentials.username)
             /\ response'.status \in {200, 401}
             /\ response'.status = 200
                  <=> credentials.password = FirstHolder(credentials.username).password
             /\ response'.status = 200 =>
                  sessionStore'[cookie] = LoggedIn(FirstHolder(credentials.username).id)
             /\ response'.status = 401 =>
                  ("passport" \in DOMAIN sessionStore'[cookie]
                     => "passport" \in DOMAIN sessionStore[cookie])
  ]_vars

\* a second user named admin is stored under id 4 with the password pw, and
\* a login as admin with a password other than the first admin's, which can
\* only be pw, has just been refused
C28_Witness ==
  /\ last.op = "login"
  /\ response.status = 401
  /\ response.body.message = "Invalid password"
  /\ last.ret = MapGet(users, 1)
  /\ MapHas(users, 4)
  /\ MapGet(users, 4).username = "admin"
  /\ MapGet(users, 4).password = "pw"

\* the sequence has no element twice
Distinct(ids) == \A i, j \in 1..Len(ids) : i # j => ids[i] # ids[j]

\* C24: however the creates of concurrent requests interleave, no id is
\* handed out twice and every created record is stored under its id: the
\* keys of the absences are the ids handed out, each once, in that order.
C24_CreatesNeverCollide ==
  /\ Distinct(issued.absences)
  /\ Pluck(absences, "key") = issued.absences
  /\ \A i \in 1..Len(absences) : absences[i].val.id = absences[i].key
  /\ nextIds.absences = Len(issued.absences) + 1

\* two batches of two items have run with their rows interleaved, and the
\* four rows are stored under four ids
C24_Witness ==
  /\ Pluck(listAbsences, "status") = <<"absent", "present", "absent", "present">>
  /\ Pluck(listAbsences, "id") = <<1, 2, 3, 4>>
  /\ microtasks = <<>>

\* from the first insertion of a batch to its last, a step that changes the
\* absences or their counter is the insertion of that batch's next item
OnlyTheBatchWrites ==
  \A k \in 1..Len(microtasks) :
    (microtasks[k].handler = "batch" /\ microtasks[k].rest # <<>>) =>
      ((absences' # absences \/ nextIds' # nextIds) =>
         LET id == microtasks[k].createdAbsence.id + 1
         IN /\ absences' = Append(absences,
                                  [key |-> id,
                                   val |-> WithId(Head(microtasks[k].rest), id)])
            /\ nextIds' = [nextIds EXCEPT !.absences = id + 1])

\* C25: while a batch is between its first and its last insertion no other
\* request's create, update or delete of an absence takes effect, and the
\* ids of the records a batch returns are consecutive.
C25_BatchRunsUninterrupted ==
  [][ /\ OnlyTheBatchWrites
      /\ last'.op = "batchCreate" =>
           \A i \in 1..(Len(last'.ret) - 1) :
             last'.ret[i + 1].id = last'.ret[i].id + 1
    ]_vars

\* a batch of two items has returned the ids 2 and 3 after one request had
\* created the absence 1 and another had deleted it
C25_Witness ==
  /\ last.op = "batchCreate"
  /\ Pluck(last.ret, "id") = <<2, 3>>
  /\ Len(absences) = 2
  /\ Pluck(listAbsences, "id") = <<2, 3>>

\* C30: a ProtectedRoute shows its children only when a user is set and,
\* if requiredRoles is given, the role of that user is one of them; in every
\* other state of the authentication flow it shows the loading indicator,
\* the login form or the access-denied message.
C30_ChildrenOnlyForPermitted ==
  mounted /\ screen = "children" =>
    /\ browser.user # Null
    /\ "requiredRoles" \in DOMAIN Router[browser.page] =>
         browser.user.role \in Router[browser.page].requiredRoles

============================================================================
